---- MODULE Spec2Model ----
(***************************************************************************)
(* Observable state containers of src/libs/store (base.ts, hooks.ts).      *)
(*                                                                         *)
(* A container is the store that createStore / createImmerStore (base.ts)  *)
(* obtain from zustand's vanilla createStore.  Its setState, getState and  *)
(* subscribe are the library's: the listeners are kept in a JavaScript Set *)
(* (insertion ordered), setState(partial, replace) compares the argument   *)
(* with the current state by Object.is, merges with Object.assign({},      *)
(* state, partial) unless replace is set, and then runs                    *)
(* listeners.forEach(l => l(state, previousState)); subscribe returns      *)
(* () => listeners.delete(listener).                                       *)
(*                                                                         *)
(* A JavaScript object is modelled as [id, val]: id is its reference       *)
(* identity (=== and Object.is compare ids), val its fields.               *)
(***************************************************************************)
EXTENDS Integers, Sequences, FiniteSets, TLC

VARIABLES
    state,      \* the container's current state object (store.getState())
    listeners,  \* the container's listener Set, in insertion order
    status,     \* per subscriber callback: "new", "on" (subscribed), "off"
    hist,       \* historyRef of useHistoryState: [past, present, future]
    maxSize,    \* the maxSize argument of useHistoryState
    opLog,      \* history of the calls made on the container with a tracker
    lastCall,   \* what the last call on the container did (observer record)
    throwing,   \* the subscriber callbacks whose body throws
    kind,       \* the creation function the container was made by
    ops,        \* the calls of wrapAsyncOperation: position, options, outcome
    clock,      \* Date.now()
    input,      \* arguments of the pure function under study
    output,     \* its result
    prevRef,    \* the cache of one createGetterHook getter
    storage     \* the storage a persisted container writes to

vars == <<state, listeners, status, hist, maxSize, opLog, lastCall,
          throwing, kind, ops, clock, input, output, prevRef, storage>>

\* the variables of the other subsystems, which a call on one leaves alone
asyncVars == <<ops, clock>>

pureVars == <<input, output>>

hookVars == <<prevRef, storage>>

----------------------------------------------------------------------------
(* Bounds of the model *)

MaxOps == 6     \* calls recorded in opLog
MaxHist == 3    \* largest maxSize handed to useHistoryState
NSubs == 3      \* subscriber callbacks s1..sN
MaxEffects == 1 \* subscriptions changed by callbacks during one pass

(* Program constants *)

DefaultMaxSize == 10    \* useHistoryState(store, maxSize = 10)
HistListener == 0       \* the listener useHistoryState.subscribe registers

Subs == 1..NSubs

----------------------------------------------------------------------------
(* Sequence helpers (Array.prototype methods used by the code) *)

Range(s) == {s[i] : i \in DOMAIN s}

InSeq(x, s) == x \in Range(s)

Last(s) == s[Len(s)]

\* Array.prototype.pop: the array without its last element
Front(s) == SubSeq(s, 1, Len(s) - 1)

\* Set.prototype.delete on an insertion-ordered Set
RemoveFrom(s, x) == SelectSeq(s, LAMBDA y : y # x)

IndexOf(s, x) == CHOOSE i \in DOMAIN s : s[i] = x

\* Array.prototype.slice(start) for one argument: a negative start counts
\* from the end (max(len + start, 0)); a start of 0 keeps the whole array.
SliceFrom(s, start) ==
    LET len == Len(s)
        k == IF start < 0
                THEN (IF len + start > 0 THEN len + start ELSE 0)
                ELSE (IF start < len THEN start ELSE len)
    IN  SubSeq(s, k + 1, len)

\* mutant of the merge: nested objects merged field by field
ShallowMergeDeep(s, p) ==
    [k \in (DOMAIN s) \cup (DOMAIN p) |->
        IF k \notin DOMAIN p THEN s[k]
        ELSE IF k \in DOMAIN s /\ k \in {"user", "data"}
            THEN [id |-> p[k].id,
                  val |-> [j \in (DOMAIN s[k].val) \cup (DOMAIN p[k].val) |->
                            IF j \in DOMAIN p[k].val THEN p[k].val[j] ELSE s[k].val[j]]]
            ELSE p[k]]

\* Object.assign({}, state, partial) on the field maps
ShallowMerge(s, p) ==
    [k \in (DOMAIN s) \cup (DOMAIN p) |-> IF k \in DOMAIN p THEN p[k] ELSE s[k]]

----------------------------------------------------------------------------
(* Reference identities *)

HistIds(h) ==
    {h.past[i].id : i \in DOMAIN h.past} \cup {h.present.id}
        \cup {h.future[i].id : i \in DOMAIN h.future}

LiveIds ==
    {state.id} \cup HistIds(hist)
        \cup UNION {{opLog[i].st.id} \cup HistIds(opLog[i].pre) \cup HistIds(opLog[i].post)
                        : i \in DOMAIN opLog}
        \cup {lastCall.pre.id, lastCall.arg.id}
        \cup {lastCall.calls[i].new.id : i \in DOMAIN lastCall.calls}
        \cup {lastCall.calls[i].prev.id : i \in DOMAIN lastCall.calls}

\* a newly allocated object: an identity no live object has
FreshId(used) == CHOOSE n \in 1..(Cardinality(used) + 1) :
                    n \notin used /\ \A m \in 1..(n - 1) : m \in used

InitialState == [id |-> 1, val |-> [count |-> 0, step |-> 1]]

NoCall == [op |-> "none", who |-> 0, pre |-> InitialState, arg |-> InitialState,
           before |-> <<>>, preStatus |-> [i \in Subs |-> "new"],
           calls |-> <<>>, effects |-> <<>>, thrown |-> FALSE, fired |-> <<>>]

----------------------------------------------------------------------------
(* The container.  A world is the part of the program state a setState call *)
(* and the callbacks it runs can change:                                    *)
(*   st     the container state          order   the listener Set           *)
(*   pos    entries of the Set the running forEach has passed               *)
(*   status the subscribers' status      h       the tracker's historyRef   *)
(*   calls  listener invocations made    effects subscriptions changed by   *)
(*                                               callbacks during the pass  *)
(*                                               (at: after how many calls) *)
(*   thrown an exception is propagating out of the running call            *)
(*   fired  subscribeTo callbacks invoked, with their arguments             *)

World(st, order, stat, h) ==
    [st |-> st, order |-> order, pos |-> 0, status |-> stat, h |-> h,
     calls |-> <<>>, effects |-> <<>>, thrown |-> FALSE, fired |-> <<>>]

\* listeners.add(listener): appended unless already in the Set
SetAdd(order, l) == IF InSeq(l, order) THEN order ELSE Append(order, l)

\* store.subscribe(callback) for subscriber j
DoSubscribe(w, j) ==
    [w EXCEPT !.order = SetAdd(@, j), !.status[j] = "on"]

\* mutant of the unsubscribe closure: listeners kept in an array and removed
\* by splice(indexOf(listener), 1), which drops the last entry when the
\* listener is no longer there
DoUnsubscribeSplice(w, j) ==
    IF InSeq(j, w.order)
        THEN [w EXCEPT !.order = RemoveFrom(@, j),
                       !.pos = IF IndexOf(w.order, j) <= w.pos THEN @ - 1 ELSE @,
                       !.status[j] = "off"]
        ELSE [w EXCEPT !.order = Front(@),
                       !.pos = IF Len(w.order) > 0 /\ Len(w.order) <= w.pos THEN @ - 1 ELSE @,
                       !.status[j] = "off"]

\* the closure subscribe returned, () => listeners.delete(listener); an entry
\* deleted behind the running forEach moves the entries after it one place up
DoUnsubscribe(w, j) ==
    [w EXCEPT !.order = RemoveFrom(@, j),
              !.pos = IF InSeq(j, w.order) /\ IndexOf(w.order, j) <= w.pos
                         THEN @ - 1 ELSE @,
              !.status[j] = "off"]

\* mutants of the listener: no slice(-maxSize); slice(0, maxSize), which keeps
\* the oldest entries; future not reset
HistoryListenerNoSlice(w, st, previousState) ==
    IF st.id # previousState.id
        THEN [w EXCEPT !.h = [past |-> Append(w.h.past, previousState),
                              present |-> st,
                              future |-> <<>>]]
        ELSE w

HistoryListenerKeepOldest(w, st, previousState) ==
    IF st.id # previousState.id
        THEN [w EXCEPT !.h = [past |-> SubSeq(Append(w.h.past, previousState), 1,
                                              IF Len(w.h.past) + 1 < maxSize
                                                 THEN Len(w.h.past) + 1 ELSE maxSize),
                              present |-> st,
                              future |-> <<>>]]
        ELSE w

HistoryListenerKeepFuture(w, st, previousState) ==
    IF st.id # previousState.id
        THEN [w EXCEPT !.h = [past |-> SliceFrom(Append(w.h.past, previousState), 0 - maxSize),
                              present |-> st,
                              future |-> w.h.future]]
        ELSE w

\* mutant of the listener: present not set
HistoryListenerKeepPresent(w, st, previousState) ==
    IF st.id # previousState.id
        THEN [w EXCEPT !.h = [past |-> SliceFrom(Append(w.h.past, previousState), 0 - maxSize),
                              present |-> w.h.present,
                              future |-> <<>>]]
        ELSE w

\* the listener of useHistoryState.subscribe (callback() is React's
\* onStoreChange and touches neither the container nor historyRef)
HistoryListener(w, st, previousState) ==
    IF st.id # previousState.id
        THEN [w EXCEPT !.h = [past |-> SliceFrom(Append(w.h.past, previousState), 0 - maxSize),
                              present |-> st,
                              future |-> <<>>]]
        ELSE w

\* a subscriber callback is arbitrary caller code: it may throw, return at
\* once, subscribe a callback not yet registered, or call an unsubscribe
\* closure
SubscriberCallback(w, l) ==
    IF l \in throwing THEN {[w EXCEPT !.thrown = TRUE]}
    ELSE
    {w} \cup
    IF Len(w.effects) >= MaxEffects THEN {}
    ELSE {[DoSubscribe(w, j) EXCEPT
                !.effects = Append(@, [by |-> l, kind |-> "subscribe", target |-> j,
                                       at |-> Len(w.calls)])]
                : j \in {i \in Subs : w.status[i] = "new"}}
         \cup
         {[DoUnsubscribe(w, j) EXCEPT
                !.effects = Append(@, [by |-> l, kind |-> "unsubscribe", target |-> j,
                                       at |-> Len(w.calls)])]
                : j \in {i \in Subs : w.status[i] # "new"}}

\* the keys watched through subscribeTo(key, callback), and the listener
\* (wrappedCallback) registered for each
WatchedKeys == <<"count", "user">>

Watcher(i) == NSubs + 1 + i

Watchers == {Watcher(i) : i \in DOMAIN WatchedKeys}

KeyOf(l) == WatchedKeys[l - NSubs - 1]

\* the keys whose values are objects
ObjectKeys == {"user", "data"}

\* obj[key]: undefined for a key the object lacks
Prop(st, key) ==
    IF key \in DOMAIN st.val THEN [defined |-> TRUE, v |-> st.val[key]]
                              ELSE [defined |-> FALSE]

\* a !== b for two values read under key: objects differ by identity,
\* primitives by value
StrictNotEqual(a, b, key) ==
    IF ~a.defined \/ ~b.defined THEN a.defined # b.defined
    ELSE IF key \in ObjectKeys THEN a.v.id # b.v.id
    ELSE a.v # b.v

\* mutant of the watcher: the callback is called on every notification
wrappedCallbackAlways(w, key, st, previousState) ==
    [w EXCEPT !.fired = Append(@, [key |-> key, value |-> Prop(st, key),
                                   previousValue |-> Prop(previousState, key)])]

\* the listener subscribeTo registers: the callback is called with
\* (state[key], previousState[key]) when the two differ
wrappedCallback(w, key, st, previousState) ==
    IF StrictNotEqual(Prop(st, key), Prop(previousState, key), key)
        THEN [w EXCEPT !.fired = Append(@, [key |-> key, value |-> Prop(st, key),
                                            previousValue |-> Prop(previousState, key)])]
        ELSE w

\* the listener a hook of createHybridHook registers through
\* useSyncExternalStore: React's onStoreChange, which schedules a render and
\* touches neither the container nor its subscriptions
HookListener == NSubs + 1

Invoke(w, l, st, previousState) ==
    IF l = HistListener THEN {HistoryListener(w, st, previousState)}
    ELSE IF l = HookListener THEN {w}
    ELSE IF l \in Watchers THEN {wrappedCallback(w, KeyOf(l), st, previousState)}
    ELSE SubscriberCallback(w, l)

\* mutant of the notification pass: it stops after the first listener
NotifyAllFirstOnly(w, st, previousState) ==
    IF w.pos >= Len(w.order) THEN {w}
    ELSE LET l == w.order[w.pos + 1]
         IN  Invoke([w EXCEPT !.pos = @ + 1,
                              !.calls = Append(@, [who |-> l, new |-> st, prev |-> previousState])],
                    l, st, previousState)

\* listeners.forEach(listener => listener(state, previousState)): Set
\* iteration visits the live Set in insertion order, entries added during
\* the iteration included, entries deleted before their turn skipped; an
\* exception thrown by a listener leaves forEach at once
RECURSIVE NotifyAll(_, _, _)
NotifyAll(w, st, previousState) ==
    IF w.pos >= Len(w.order) \/ w.thrown THEN {w}
    ELSE LET l == w.order[w.pos + 1]
             w1 == [w EXCEPT !.pos = @ + 1,
                             !.calls = Append(@, [who |-> l, new |-> st, prev |-> previousState])]
         IN  UNION {NotifyAll(w2, st, previousState) : w2 \in Invoke(w1, l, st, previousState)}

\* mutant of setState: no Object.is(nextState, state) test
SetStateImplNoIdentityTest(w, arg, replace, newId) ==
    LET previousState == w.st
        next == IF replace THEN arg
                ELSE [id |-> newId, val |-> ShallowMerge(w.st.val, arg.val)]
    IN  NotifyAll([w EXCEPT !.st = next, !.pos = 0], next, previousState)

\* store.setState(partial, replace) for an object argument; newId is the
\* identity of the object Object.assign creates
SetStateImpl(w, arg, replace, newId) ==
    IF arg.id = w.st.id THEN {w}
    ELSE LET previousState == w.st
             next == IF replace THEN arg
                     ELSE [id |-> newId, val |-> ShallowMerge(w.st.val, arg.val)]
         IN  NotifyAll([w EXCEPT !.st = next, !.pos = 0], next, previousState)

----------------------------------------------------------------------------
(* The parts of the state a subsystem under study does not use *)

NoThrowers == throwing = {}

PlainContainer == kind = "createStore"

NoOperations == ops = <<>> /\ clock = 0

NoFunctionCall == input = <<>> /\ output = <<>>

NoHooks == prevRef = <<>> /\ storage = <<>>

----------------------------------------------------------------------------
(* Calls on a container watched by one history tracker (useHistoryState)   *)

HistSubscribed == InSeq(HistListener, listeners)

TheWorld == World(state, listeners, status, hist)

LogEntry(op, ret, w) ==
    [op |-> op, ret |-> ret, sub |-> HistSubscribed, st |-> w.st,
     pre |-> hist, post |-> w.h, notes |-> Len(w.calls)]

\* the call returns with the container and the tracker as world w left them
Returns(op, ret, w) ==
    /\ state' = w.st
    /\ listeners' = w.order
    /\ status' = w.status
    /\ hist' = w.h
    /\ opLog' = Append(opLog, LogEntry(op, ret, w))
    /\ UNCHANGED <<maxSize, lastCall, throwing, kind, asyncVars, pureVars, hookVars>>

\* a forward mutation: store.setState(partial) with a new object literal
ForwardMutation(op, partial) ==
    LET argId == FreshId(LiveIds)
        arg == [id |-> argId, val |-> partial]
        newId == FreshId(LiveIds \cup {argId})
    IN  \E w \in SetStateImpl(TheWorld, arg, FALSE, newId) : Returns(op, TRUE, w)

\* increment(): this.setState({ count: state.count + state.step })
Increment ==
    /\ Len(opLog) < MaxOps
    /\ ForwardMutation("increment", [count |-> state.val.count + state.val.step])

StepVals == {2}

\* setStep(step): this.setState({ step })
SetStep ==
    /\ Len(opLog) < MaxOps
    /\ \E v \in StepVals : ForwardMutation("setStep", [step |-> v])

\* mutant of undo(): future.push(present) made before the emptiness test
UndoImplPushFirst(w, newId) ==
    LET w1 == [w EXCEPT !.h = [past |-> Front(w.h.past),
                               present |-> w.h.present,
                               future |-> Append(w.h.future, w.h.present)]]
    IN  IF w.h.past = <<>> THEN {[ret |-> FALSE, w |-> w1]}
        ELSE {[ret |-> TRUE, w |-> w2] : w2 \in SetStateImpl(w1, Last(w.h.past), FALSE, newId)}

\* undo(): previous = past.pop(); if (previous) { future.push(present);
\* store.setState(previous); return true } return false
UndoImpl(w, newId) ==
    IF w.h.past = <<>> THEN {[ret |-> FALSE, w |-> w]}
    ELSE LET previous == Last(w.h.past)
             w1 == [w EXCEPT !.h = [past |-> Front(w.h.past),
                                    present |-> w.h.present,
                                    future |-> Append(w.h.future, w.h.present)]]
         IN  {[ret |-> TRUE, w |-> w2] : w2 \in SetStateImpl(w1, previous, FALSE, newId)}

\* redo(): next = future.pop(); if (next) { past.push(present);
\* store.setState(next); return true } return false
RedoImpl(w, newId) ==
    IF w.h.future = <<>> THEN {[ret |-> FALSE, w |-> w]}
    ELSE LET next == Last(w.h.future)
             w1 == [w EXCEPT !.h = [past |-> Append(w.h.past, w.h.present),
                                    present |-> w.h.present,
                                    future |-> Front(w.h.future)]]
         IN  {[ret |-> TRUE, w |-> w2] : w2 \in SetStateImpl(w1, next, FALSE, newId)}

Undo ==
    /\ Len(opLog) < MaxOps
    /\ \E r \in UndoImpl(TheWorld, FreshId(LiveIds)) : Returns("undo", r.ret, r.w)

Redo ==
    /\ Len(opLog) < MaxOps
    /\ \E r \in RedoImpl(TheWorld, FreshId(LiveIds)) : Returns("redo", r.ret, r.w)

canUndo == Len(hist.past) > 0

canRedo == Len(hist.future) > 0

\* useSyncExternalStore(subscribe, ...) subscribes the tracker's listener
\* when the component is committed ...
HistMount ==
    /\ Len(opLog) < MaxOps
    /\ ~HistSubscribed
    /\ Returns("mount", TRUE, [TheWorld EXCEPT !.order = SetAdd(@, HistListener)])

\* ... and calls the closure store.subscribe returned when it goes away
HistUnmount ==
    /\ Len(opLog) < MaxOps
    /\ HistSubscribed
    /\ Returns("unmount", TRUE, [TheWorld EXCEPT !.order = RemoveFrom(@, HistListener)])

\* useHistoryState(store, maxSize) on a new container, its listener subscribed
InitHistory ==
    /\ state = InitialState
    /\ listeners = <<HistListener>>
    /\ status = [i \in Subs |-> "new"]
    /\ hist = [past |-> <<>>, present |-> InitialState, future |-> <<>>]
    /\ maxSize \in 0..MaxHist
    /\ opLog = <<>>
    /\ lastCall = NoCall
    /\ NoThrowers /\ PlainContainer /\ NoOperations /\ NoFunctionCall /\ NoHooks

NextHistory == Increment \/ SetStep \/ Undo \/ Redo \/ HistMount \/ HistUnmount

SpecHistory == InitHistory /\ [][NextHistory]_vars

----------------------------------------------------------------------------
(* Properties of the history tracker *)

Forward == {"increment", "setStep"}

\* the container state before the i-th logged call
PreState(i) == IF i = 1 THEN InitialState ELSE opLog[i - 1].st

\* the tracker stayed subscribed during the calls logged so far
AlwaysSubscribed == \A i \in DOMAIN opLog : opLog[i].sub /\ opLog[i].op # "unmount"

\* C1: from state A, after a mutation to B and a mutation to C (tracker
\* subscribed), undo() returns true and the state equals B, a second undo()
\* returns true and the state equals A, and two redo() calls then each
\* return true and bring the state to B and back to C (maxSize >= 2, so
\* that A is not evicted from past).
C1_UndoRedoRoundTrip ==
    LET n == Len(opLog)
        A == InitialState.val
        B == opLog[1].st.val
        C == opLog[2].st.val
    IN  (/\ maxSize >= 2
         /\ n \in 3..6
         /\ opLog[1].op \in Forward
         /\ opLog[2].op \in Forward
         /\ \A i \in 3..n : opLog[i].op = (IF i <= 4 THEN "undo" ELSE "redo"))
        => /\ opLog[n].ret
           /\ opLog[n].st.val = (CASE n = 3 -> B [] n = 4 -> A [] n = 5 -> B [] n = 6 -> C)

\* C2: with the tracker subscribed, right after undo() returned true
\* canRedo() is true and the last element of future is the state that was
\* present before the undo; right after redo() returned true canUndo() is
\* true.
C2_UndoRedoKeepOppositeStack ==
    (opLog # <<>> /\ maxSize >= 1) =>
        LET e == Last(opLog)
        IN  /\ (e.op = "undo" /\ e.ret /\ e.sub) =>
                    (canRedo /\ Last(hist.future) = e.pre.present)
            /\ (e.op = "redo" /\ e.ret /\ e.sub) => canUndo

\* C3: for every maxSize N >= 1, past.length <= N after each completed call
\* (forward mutation, undo, redo) on a container with a history tracker.
C3_PastBounded == maxSize >= 1 => Len(hist.past) <= maxSize

C3_Witness ==
    /\ maxSize = 2
    /\ Len(hist.past) = maxSize
    /\ opLog # <<>>
    /\ Last(opLog).op = "redo" /\ Last(opLog).ret /\ Last(opLog).sub
    /\ \E i \in DOMAIN opLog : opLog[i].op = "undo" /\ opLog[i].ret
    /\ Cardinality({i \in DOMAIN opLog : opLog[i].op \in Forward}) >= 2

\* push_bounded(past, x, N) of the specification: append x, then evict the
\* oldest entries while there are more than N
PushBounded(p, x, n) ==
    LET q == Append(p, x)
    IN  IF Len(q) > n THEN SubSeq(q, Len(q) - n + 1, Len(q)) ELSE q

Min(a, b) == IF a < b THEN a ELSE b

\* C4: (maxSize >= 1, tracker subscribed) each forward mutation makes a new
\* state, appends the previous state to the end of past, evicting the oldest
\* entry first when past would exceed maxSize, and sets present to the new
\* state; after k sequential forward mutations past holds exactly the
\* min(k, maxSize) most recent predecessor states in chronological order.
C4_ForwardPushBounded ==
    (maxSize >= 1 /\ opLog # <<>>) =>
        LET k == Len(opLog)
            e == opLog[k]
            preds == [i \in 1..k |-> PreState(i)]
        IN  /\ (e.op \in Forward /\ e.sub) =>
                    /\ e.st.id # PreState(k).id
                    /\ hist.past = PushBounded(e.pre.past, PreState(k), maxSize)
                    /\ hist.present = e.st
            /\ (AlwaysSubscribed /\ \A i \in 1..k : opLog[i].op \in Forward) =>
                    /\ Len(hist.past) = Min(k, maxSize)
                    /\ hist.past = SubSeq(preds, k - Min(k, maxSize) + 1, k)

C4_Witness ==
    /\ maxSize = 3
    /\ Len(opLog) = 5
    /\ \A i \in DOMAIN opLog : opLog[i].op \in Forward /\ opLog[i].sub
    /\ Len(hist.past) = 3
    /\ hist.past[1] = opLog[2].st

\* C5: a forward mutation performed after an undo() empties future (tracker
\* subscribed): canRedo() is false, and a redo() that follows returns false
\* without changing the container state.
C5_FreshMutationClearsFuture ==
    \A n \in DOMAIN opLog :
        (/\ n >= 2
         /\ opLog[n].op \in Forward /\ opLog[n].sub
         /\ opLog[n - 1].op = "undo" /\ opLog[n - 1].ret)
        => /\ opLog[n].post.future = <<>>
           /\ (n = Len(opLog)) => ~canRedo
           /\ (n < Len(opLog) /\ opLog[n + 1].op = "redo") =>
                    /\ ~opLog[n + 1].ret
                    /\ opLog[n + 1].st = opLog[n].st

C5_Witness ==
    /\ Len(opLog) = 5
    /\ AlwaysSubscribed
    /\ opLog[1].op \in Forward /\ opLog[2].op \in Forward
    /\ opLog[3].op = "undo" /\ opLog[3].ret /\ opLog[3].st.val = opLog[1].st.val
    /\ opLog[4].op \in Forward
    /\ opLog[5].op = "redo" /\ ~opLog[5].ret
    /\ state = opLog[4].st

\* C6: undo() with past empty and redo() with future empty return false and
\* are no-ops: container state, past, present and future are unchanged and
\* no subscriber is notified.
C6_EmptyStackNoOp ==
    \A n \in DOMAIN opLog :
        LET e == opLog[n]
        IN  ((e.op = "undo" /\ e.pre.past = <<>>) \/ (e.op = "redo" /\ e.pre.future = <<>>))
            => /\ ~e.ret
               /\ e.post = e.pre
               /\ e.st = PreState(n)
               /\ e.notes = 0

C6_Witness ==
    /\ Len(opLog) = 2
    /\ opLog[1].op = "undo" /\ ~opLog[1].ret /\ opLog[1].sub
    /\ opLog[2].op = "redo" /\ ~opLog[2].ret
    /\ state = InitialState
    /\ hist = [past |-> <<>>, present |-> InitialState, future |-> <<>>]

----------------------------------------------------------------------------
(* Calls on a container with subscriber callbacks s1..sN (StoreHelper)     *)

\* the partial objects handed to setState
PartialArgs == {[count |-> 1]}

Call(op, who, arg, w) ==
    [op |-> op, who |-> who, pre |-> state, arg |-> arg, before |-> listeners,
     preStatus |-> status, calls |-> w.calls, effects |-> w.effects,
     thrown |-> w.thrown, fired |-> w.fired]

StoreReturns(op, who, arg, w) ==
    /\ state' = w.st
    /\ listeners' = w.order
    /\ status' = w.status
    /\ lastCall' = Call(op, who, arg, w)
    /\ UNCHANGED <<hist, maxSize, opLog, throwing, kind, asyncVars, pureVars, hookVars>>

\* StoreHelper.setState(partial): this.store.setState(partial), with the
\* current state object itself or with a new partial object
StoreSetState ==
    \/ \E w \in SetStateImpl(TheWorld, state, FALSE, FreshId({state.id})) :
            StoreReturns("setState", 0, state, w)
    \/ \E p \in PartialArgs :
            LET argId == FreshId({state.id})
                arg == [id |-> argId, val |-> p]
                newId == FreshId({state.id, argId})
            IN  \E w \in SetStateImpl(TheWorld, arg, FALSE, newId) :
                    StoreReturns("setState", 0, arg, w)

\* StoreHelper.subscribe(callback, options): with fireImmediately the
\* callback is first called with (getState(), getState()); then
\* this.store.subscribe(callback), which a callback that threw is not
\* to reach
StoreSubscribe ==
    \E i \in Subs, fireImmediately \in BOOLEAN :
        /\ status[i] = "new"
        /\ LET w0 == IF fireImmediately
                        THEN [TheWorld EXCEPT
                                !.calls = <<[who |-> i, new |-> state, prev |-> state]>>,
                                !.thrown = i \in throwing]
                        ELSE TheWorld
           IN  StoreReturns("subscribe", i, state,
                            IF w0.thrown THEN w0 ELSE DoSubscribe(w0, i))

\* a call, the first or a later one, of the closure subscribe returned
StoreUnsubscribe ==
    \E i \in Subs :
        /\ status[i] # "new"
        /\ StoreReturns("unsubscribe", i, state, DoUnsubscribe(TheWorld, i))

\* a new container; no history tracker is attached
InitStore ==
    /\ state = InitialState
    /\ listeners = <<>>
    /\ status = [i \in Subs |-> "new"]
    /\ hist = [past |-> <<>>, present |-> InitialState, future |-> <<>>]
    /\ maxSize = DefaultMaxSize
    /\ opLog = <<>>
    /\ lastCall = NoCall
    /\ NoThrowers /\ PlainContainer /\ NoOperations /\ NoFunctionCall /\ NoHooks

NextStore == StoreSetState \/ StoreSubscribe \/ StoreUnsubscribe

SpecStore == InitStore /\ [][NextStore]_vars

----------------------------------------------------------------------------
(* Properties of the container and its subscribers *)

Who(calls) == [i \in DOMAIN calls |-> calls[i].who]

StateChanging == lastCall.op = "setState" /\ lastCall.arg.id # lastCall.pre.id

\* C7: setState(s) with s reference-identical to the current state invokes
\* zero subscribers and leaves getState() reference-identical to s.
C7_SameReferenceNoNotify ==
    (lastCall.op = "setState" /\ lastCall.arg.id = lastCall.pre.id) =>
        /\ lastCall.calls = <<>>
        /\ state = lastCall.pre
        /\ state.id = lastCall.arg.id
        /\ listeners = lastCall.before

C7_Witness ==
    /\ lastCall.op = "setState"
    /\ lastCall.arg.id = lastCall.pre.id
    /\ Len(lastCall.before) >= 2

\* C8: subscribers are kept in registration order, and a state-changing
\* setState invokes each of the N subscribers registered when it is called
\* exactly once, in registration order, with (newState, previousState),
\* before it returns (passes in which a callback unsubscribes a subscriber
\* are the subject of C10).
C8_NotifyInRegistrationOrder ==
    /\ (lastCall.op = "subscribe" /\ lastCall.preStatus[lastCall.who] = "new") =>
            listeners = Append(lastCall.before, lastCall.who)
    /\ (StateChanging /\ \A e \in Range(lastCall.effects) : e.kind # "unsubscribe") =>
            /\ state.id # lastCall.pre.id
            /\ SelectSeq(Who(lastCall.calls), LAMBDA l : InSeq(l, lastCall.before))
                    = lastCall.before
            /\ \A i \in DOMAIN lastCall.calls :
                    lastCall.calls[i].new = state /\ lastCall.calls[i].prev = lastCall.pre

C8_Witness ==
    /\ StateChanging
    /\ lastCall.effects = <<>>
    /\ Len(lastCall.before) = 3
    /\ lastCall.before[1] > lastCall.before[2]
    /\ Len(lastCall.calls) = 3

\* the entries of s keep in t the relative order they have in s
SameOrder(s, t) ==
    \A a, b \in Range(s) \cap Range(t) :
        (IndexOf(s, a) < IndexOf(s, b)) <=> (IndexOf(t, a) < IndexOf(t, b))

\* C9: a second call of an unsubscribe closure changes nothing; after the
\* first call the callback is not invoked again; the other subscribers stay
\* registered in their original order.
C9_UnsubscribeTwiceNoOp ==
    /\ (lastCall.op = "unsubscribe" /\ lastCall.preStatus[lastCall.who] = "off") =>
            /\ listeners = lastCall.before
            /\ state = lastCall.pre
            /\ lastCall.calls = <<>>
            /\ status = lastCall.preStatus
    /\ (lastCall.op = "unsubscribe") =>
            /\ ~InSeq(lastCall.who, listeners)
            /\ Range(listeners) = Range(lastCall.before) \ {lastCall.who}
            /\ Len(listeners) = Cardinality(Range(listeners))
            /\ SameOrder(lastCall.before, listeners)
    /\ (lastCall.op = "setState") =>
            /\ \A i \in DOMAIN lastCall.calls :
                    lastCall.preStatus[lastCall.calls[i].who] # "off"
            /\ \A e \in Range(lastCall.effects) :
                    e.kind = "unsubscribe" =>
                        \A i \in DOMAIN lastCall.calls :
                            i > e.at => lastCall.calls[i].who # e.target

C9_Witness ==
    /\ lastCall.op = "unsubscribe"
    /\ lastCall.preStatus[lastCall.who] = "off"
    /\ Len(listeners) >= 2

\* C10: a notification pass notifies exactly the subscribers registered when
\* the pass began: a subscriber added by a callback during the pass is not
\* invoked in it, one removed by a callback during the pass is still invoked.
C10_PassNotifiesSnapshot ==
    StateChanging => Who(lastCall.calls) = lastCall.before

----------------------------------------------------------------------------
(* A container some of whose subscriber callbacks throw *)

InitThrow ==
    /\ state = InitialState
    /\ listeners = <<>>
    /\ status = [i \in Subs |-> "new"]
    /\ hist = [past |-> <<>>, present |-> InitialState, future |-> <<>>]
    /\ maxSize = DefaultMaxSize
    /\ opLog = <<>>
    /\ lastCall = NoCall
    /\ throwing \in SUBSET Subs /\ throwing # {}
    /\ PlainContainer /\ NoOperations /\ NoFunctionCall /\ NoHooks

NextThrow == StoreSetState \/ StoreSubscribe \/ StoreUnsubscribe

SpecThrow == InitThrow /\ [][NextThrow]_vars

\* C11: when a subscriber callback throws during the notification pass of a
\* state-changing setState, every subscriber registered when the pass began
\* (those after the thrower included) has been invoked by the time the error
\* reaches the setState caller, and the new state stays committed.
C11_ThrowingSubscriberIsolated ==
    (StateChanging /\ lastCall.thrown /\ lastCall.effects = <<>>) =>
        /\ Who(lastCall.calls) = lastCall.before
        /\ state.id # lastCall.pre.id
        /\ state.val = ShallowMerge(lastCall.pre.val, lastCall.arg.val)

----------------------------------------------------------------------------
(* The hybrid container (createHybridStore) and wrapAsyncOperation.  A call *)
(* of wrapAsyncOperation runs in two turns of the event loop: from its     *)
(* start to the await of operation(), and from the settlement of the       *)
(* operation's promise to its own settlement.                              *)

MaxClock == 2   \* largest value of Date.now()

\* the calls of wrapAsyncOperation on one container
Operations == {1, 2}

Null == [type |-> "null"]

Undefined == [type |-> "undefined"]

InitialData == [id |-> 2, val |-> [items |-> 0]]

\* hybridInitialState of createHybridStore
HybridInitialState ==
    [id |-> 1, val |-> [data |-> InitialData, _isLoading |-> FALSE,
                        _error |-> Null, _lastUpdate |-> 0]]

HybridIds == {state.id, state.val.data.id}

\* options = { setLoading: true, setError: true }
DefaultOptions == [setLoading |-> TRUE, setError |-> TRUE]

\* what operation() can throw: an Error instance of its own, a string, an
\* object
ThrownValues(o) ==
    {[type |-> "Error", id |-> o, message |-> "failed"],
     [type |-> "string", value |-> "boom"],
     [type |-> "object", value |-> "{code: 1}"]}

\* how the promise operation() returned settles
Settlements(o) ==
    {[kind |-> "resolved", value |-> [type |-> "object", val |-> [items |-> 1]]]}
        \cup {[kind |-> "rejected", value |-> v] : v \in ThrownValues(o)}

NotSettled == [kind |-> "none", value |-> Undefined]

\* String(value)
StringOf(v) ==
    CASE v.type = "string" -> v.value
      [] v.type = "object" -> "[object Object]"
      [] v.type = "undefined" -> "undefined"
      [] v.type = "null" -> "null"
      [] v.type = "Error" -> "Error: " \o v.message

\* mutant of the normalization: an Error instance is wrapped as well
NormalizeAlwaysWrap(error, errId) ==
    [type |-> "Error", id |-> errId, message |-> StringOf(error)]

\* error instanceof Error ? error : new Error(String(error))
Normalize(error, errId) ==
    IF error.type = "Error" THEN error
    ELSE [type |-> "Error", id |-> errId, message |-> StringOf(error)]

\* mutant of the pending commit: _error left as it is
WrapStartKeepError(w, options, argId, newId) ==
    IF options.setLoading
        THEN SetStateImpl(w, [id |-> argId, val |-> [_isLoading |-> TRUE]], FALSE, newId)
        ELSE {w}

\* wrapAsyncOperation up to the call of operation()
WrapStart(w, options, argId, newId) ==
    IF options.setLoading
        THEN SetStateImpl(w, [id |-> argId, val |-> [_isLoading |-> TRUE, _error |-> Null]],
                          FALSE, newId)
        ELSE {w}

\* mutant of the failure path: _isLoading and _error committed by two
\* setState calls
WrapSettleTwoCommits(w, options, settled, now, errId, argId, newId) ==
    IF settled.kind = "resolved"
        THEN {[w |-> w2, outcome |-> settled] :
                w2 \in SetStateImpl(w, [id |-> argId,
                                        val |-> [_isLoading |-> FALSE, _error |-> Null,
                                                 _lastUpdate |-> now]],
                                    FALSE, newId)}
        ELSE LET errorObj == Normalize(settled.value, errId)
                 rejection == [kind |-> "rejected", value |-> errorObj]
             IN  IF options.setError
                    THEN {[w |-> w3, outcome |-> rejection] :
                            w3 \in UNION {SetStateImpl(w2, [id |-> argId,
                                                            val |-> [_error |-> errorObj,
                                                                     _lastUpdate |-> now]],
                                                       FALSE, w.st.id) :
                                          w2 \in SetStateImpl(w, [id |-> argId,
                                                                  val |-> [_isLoading |-> FALSE]],
                                                              FALSE, newId)}}
                    ELSE {[w |-> w, outcome |-> rejection]}

\* mutant of the success path: _lastUpdate not written
WrapSettleNoTimestamp(w, options, settled, now, errId, argId, newId) ==
    IF settled.kind = "resolved"
        THEN {[w |-> w2, outcome |-> settled] :
                w2 \in SetStateImpl(w, [id |-> argId,
                                        val |-> [_isLoading |-> FALSE, _error |-> Null]],
                                    FALSE, newId)}
        ELSE LET errorObj == Normalize(settled.value, errId)
                 rejection == [kind |-> "rejected", value |-> errorObj]
             IN  IF options.setError
                    THEN {[w |-> w2, outcome |-> rejection] :
                            w2 \in SetStateImpl(w, [id |-> argId,
                                                    val |-> [_isLoading |-> FALSE,
                                                             _error |-> errorObj,
                                                             _lastUpdate |-> now]],
                                                FALSE, newId)}
                    ELSE {[w |-> w, outcome |-> rejection]}

\* mutant of the failure path: _error committed, _isLoading left as it is
WrapSettleKeepLoading(w, options, settled, now, errId, argId, newId) ==
    IF settled.kind = "resolved"
        THEN {[w |-> w2, outcome |-> settled] :
                w2 \in SetStateImpl(w, [id |-> argId,
                                        val |-> [_isLoading |-> FALSE, _error |-> Null,
                                                 _lastUpdate |-> now]],
                                    FALSE, newId)}
        ELSE LET errorObj == Normalize(settled.value, errId)
                 rejection == [kind |-> "rejected", value |-> errorObj]
             IN  IF options.setError
                    THEN {[w |-> w2, outcome |-> rejection] :
                            w2 \in SetStateImpl(w, [id |-> argId,
                                                    val |-> [_error |-> errorObj,
                                                             _lastUpdate |-> now]],
                                                FALSE, newId)}
                    ELSE {[w |-> w, outcome |-> rejection]}

\* wrapAsyncOperation from the settlement of operation()'s promise: the
\* world it leaves and how its own promise settles
WrapSettle(w, options, settled, now, errId, argId, newId) ==
    IF settled.kind = "resolved"
        THEN {[w |-> w2, outcome |-> settled] :
                w2 \in SetStateImpl(w, [id |-> argId,
                                        val |-> [_isLoading |-> FALSE, _error |-> Null,
                                                 _lastUpdate |-> now]],
                                    FALSE, newId)}
        ELSE LET errorObj == Normalize(settled.value, errId)
                 rejection == [kind |-> "rejected", value |-> errorObj]
             IN  IF options.setError
                    THEN {[w |-> w2, outcome |-> rejection] :
                            w2 \in SetStateImpl(w, [id |-> argId,
                                                    val |-> [_isLoading |-> FALSE,
                                                             _error |-> errorObj,
                                                             _lastUpdate |-> now]],
                                                FALSE, newId)}
                    ELSE {[w |-> w, outcome |-> rejection]}

AsyncReturns(op, o, w) ==
    /\ state' = w.st
    /\ listeners' = w.order
    /\ status' = w.status
    /\ lastCall' = Call(op, o, state, w)
    /\ UNCHANGED <<hist, maxSize, opLog, throwing, kind, clock, pureVars, hookVars>>

\* wrapAsyncOperation(store, operation, options) is called; atInvoke is the
\* state operation() is invoked in
AsyncStart ==
    \E o \in Operations, setLoading \in BOOLEAN, setError \in BOOLEAN :
        /\ ops[o].pc = "idle"
        /\ LET options == [setLoading |-> setLoading, setError |-> setError]
               argId == FreshId(HybridIds)
               newId == FreshId(HybridIds \cup {argId})
           IN  \E w \in WrapStart(TheWorld, options, argId, newId) :
                    /\ AsyncReturns("start", o, w)
                    /\ ops' = [ops EXCEPT ![o] = [@ EXCEPT !.pc = "pending",
                                                           !.options = options,
                                                           !.atInvoke = w.st]]

\* the promise of operation() settles and the call continues after its
\* await; atSettle is the state in which its own promise settles, seq the
\* rank of this settlement among the calls'
AsyncSettle ==
    \E o \in Operations :
        /\ ops[o].pc = "pending"
        /\ \E settled \in Settlements(o) :
            LET argId == FreshId(HybridIds)
                newId == FreshId(HybridIds \cup {argId})
                errId == Cardinality(Operations) + o
            IN  \E r \in WrapSettle(TheWorld, ops[o].options, settled, clock,
                                    errId, argId, newId) :
                    /\ AsyncReturns("settle", o, r.w)
                    /\ ops' = [ops EXCEPT ![o] =
                                [@ EXCEPT !.pc = "settled",
                                          !.raw = settled,
                                          !.outcome = r.outcome,
                                          !.atSettle = r.w.st,
                                          !.at = clock,
                                          !.seq = 1 + Cardinality({q \in Operations :
                                                                    ops[q].pc = "settled"})]]

\* time passes
Tick ==
    /\ clock < MaxClock
    /\ clock' = clock + 1
    /\ UNCHANGED <<state, listeners, status, hist, maxSize, opLog, lastCall,
                   throwing, kind, ops, pureVars, hookVars>>

\* a new hybrid container watched by one hook of createHybridHook
InitAsync ==
    /\ state = HybridInitialState
    /\ listeners = <<HookListener>>
    /\ status = [i \in Subs |-> "new"]
    /\ hist = [past |-> <<>>, present |-> InitialState, future |-> <<>>]
    /\ maxSize = DefaultMaxSize
    /\ opLog = <<>>
    /\ lastCall = NoCall
    /\ ops = [o \in Operations |->
                [pc |-> "idle", options |-> DefaultOptions,
                 atInvoke |-> HybridInitialState, raw |-> NotSettled,
                 outcome |-> NotSettled, atSettle |-> HybridInitialState,
                 at |-> 0, seq |-> 0]]
    /\ clock = 0
    /\ kind = "createHybridStore"
    /\ NoThrowers /\ NoFunctionCall /\ NoHooks

NextAsync == AsyncStart \/ AsyncSettle \/ Tick

SpecAsync == InitAsync /\ [][NextAsync]_vars

----------------------------------------------------------------------------
(* Properties of wrapAsyncOperation *)

\* the last step was the settlement of call o
JustSettled(o) == lastCall.op = "settle" /\ lastCall.who = o

\* the last step was the start of call o
JustStarted(o) == lastCall.op = "start" /\ lastCall.who = o

\* C12: a wrapped operation that fails (setError on) makes one failure
\* commit: every subscriber gets exactly one notification, in which
\* _isLoading is false and _error is the error, from the state before the
\* settlement; and the state in which the rejection is raised already shows
\* that commit.
C12_FailureCommitAtomic ==
    \A o \in Operations :
        (JustSettled(o) /\ ops[o].outcome.kind = "rejected" /\ ops[o].options.setError) =>
            /\ Len(lastCall.calls) = Len(lastCall.before)
            /\ \A i \in DOMAIN lastCall.calls :
                    /\ lastCall.calls[i].prev = lastCall.pre
                    /\ lastCall.calls[i].new.val._isLoading = FALSE
                    /\ lastCall.calls[i].new.val._error = ops[o].outcome.value
                    /\ lastCall.calls[i].new.val._error # Null
            /\ ops[o].atSettle = state
            /\ state.val._isLoading = FALSE
            /\ state.val._error = ops[o].outcome.value

C12_Witness ==
    \E o \in Operations :
        /\ JustSettled(o)
        /\ ops[o].outcome.kind = "rejected"
        /\ ops[o].options = DefaultOptions
        /\ lastCall.pre.val._isLoading = TRUE
        /\ lastCall.pre.val._error = Null
        /\ Len(lastCall.calls) = 1
        /\ state.val._error.type = "Error"

\* no call other than o is between its start and its settlement
NoOtherInFlight(o) == \A q \in Operations \ {o} : ops[q].pc # "pending"

\* C13: when a wrapped operation settles with no other wrapped operation in
\* flight on the container, then for every value of options: after success
\* _isLoading is false and _error is null; after failure _isLoading is false
\* and _error is the normalized error.
C13_SettleClearsLoadingEveryOptions ==
    \A o \in Operations :
        (JustSettled(o) /\ NoOtherInFlight(o)) =>
            /\ state.val._isLoading = FALSE
            /\ (ops[o].outcome.kind = "resolved") => state.val._error = Null
            /\ (ops[o].outcome.kind = "rejected") => state.val._error = ops[o].outcome.value

\* C14: on success the settle commit of wrapAsyncOperation stores the
\* operation's result merged into data, in the same single commit that sets
\* _isLoading false, _error null and _lastUpdate.
C14_SuccessCommitStoresResult ==
    \A o \in Operations :
        (JustSettled(o) /\ ops[o].outcome.kind = "resolved") =>
            /\ Len(lastCall.calls) = Len(lastCall.before)
            /\ state.val._isLoading = FALSE
            /\ state.val._error = Null
            /\ state.val._lastUpdate = ops[o].at
            /\ state.val.data.val
                    = ShallowMerge(lastCall.pre.val.data.val, ops[o].outcome.value.val)

\* C15: with default options wrapAsyncOperation commits {_isLoading: true,
\* _error: null} as one notification before operation() is invoked: the
\* state operation() is invoked in shows the commit, and an error left by an
\* earlier failed operation is gone from then on.
C15_PendingCommitBeforeOperation ==
    \A o \in Operations :
        (JustStarted(o) /\ ops[o].options = DefaultOptions) =>
            /\ Len(lastCall.calls) = Len(lastCall.before)
            /\ \A i \in DOMAIN lastCall.calls :
                    /\ lastCall.calls[i].prev = lastCall.pre
                    /\ lastCall.calls[i].new.val._isLoading = TRUE
                    /\ lastCall.calls[i].new.val._error = Null
            /\ ops[o].atInvoke = state
            /\ state.val._isLoading = TRUE
            /\ state.val._error = Null
            /\ state.val.data = lastCall.pre.val.data
            /\ state.val._lastUpdate = lastCall.pre.val._lastUpdate

C15_Witness ==
    \E o \in Operations :
        /\ JustStarted(o)
        /\ ops[o].options = DefaultOptions
        /\ lastCall.pre.val._error.type = "Error"
        /\ lastCall.pre.val._isLoading = FALSE
        /\ Len(lastCall.calls) = 1
        /\ state.val._error = Null

\* the message of the Error made from a thrown value that is no Error
WrappedMessage(v) ==
    IF v.type = "string" THEN v.value ELSE "[object Object]"

\* C16: a value thrown by the wrapped operation is normalized once: an Error
\* instance is kept as it is, any other value is wrapped in a new Error; the
\* value stored in _error (when the failure is committed) is the very value
\* wrapAsyncOperation rejects with; and it rejects for every options value.
C16_ErrorNormalizedOnce ==
    \A o \in Operations :
        (ops[o].pc = "settled" /\ ops[o].raw.kind = "rejected") =>
            LET thrownValue == ops[o].raw.value
                rejection == ops[o].outcome
            IN  /\ rejection.kind = "rejected"
                /\ rejection.value.type = "Error"
                /\ (thrownValue.type = "Error") => rejection.value = thrownValue
                /\ (thrownValue.type # "Error") =>
                        /\ rejection.value.message = WrappedMessage(thrownValue)
                        /\ \A q \in Operations :
                                \A v \in ThrownValues(q) :
                                    v.type = "Error" => v.id # rejection.value.id
                /\ (ops[o].options.setError) => ops[o].atSettle.val._error = rejection.value
                /\ (JustSettled(o) /\ ops[o].options.setError) =>
                        state.val._error = rejection.value
                /\ (JustSettled(o) /\ ~ops[o].options.setError) => state = lastCall.pre

C16_Witness ==
    \E o, q \in Operations :
        /\ o # q
        /\ ops[q].pc = "settled"
        /\ ops[q].raw.kind = "rejected" /\ ops[q].raw.value.type = "Error"
        /\ ops[q].outcome.value = ops[q].raw.value
        /\ ~ops[q].options.setError
        /\ JustSettled(o)
        /\ ops[o].raw.kind = "rejected" /\ ops[o].raw.value.type = "string"
        /\ ops[o].options.setError
        /\ state.val._error.message = "boom"

BothSettled == \A o \in Operations : ops[o].pc = "settled"

\* the call that settled last
LastSettled == CHOOSE o \in Operations : ops[o].seq = Cardinality(Operations)

\* the step of call o that ran last made a commit
StepCommits(o) ==
    IF lastCall.op = "start" THEN ops[o].options.setLoading
    ELSE ops[o].outcome.kind = "resolved" \/ ops[o].options.setError

\* C17: two wrapped operations on one hybrid container interleave only at
\* their await points: the pending commit and the settle commit of each is
\* one setState with one notification per subscriber, from the state before
\* the step to the state after it; and once both have settled, _isLoading,
\* _error and _lastUpdate are the values the settle commit of the operation
\* that settled last wrote.
C17_InterleaveLastWriterWins ==
    /\ \A o \in Operations :
        (JustStarted(o) \/ JustSettled(o)) =>
            /\ Len(lastCall.calls) = (IF StepCommits(o) THEN Len(lastCall.before) ELSE 0)
            /\ \A i \in DOMAIN lastCall.calls :
                    lastCall.calls[i].new = state /\ lastCall.calls[i].prev = lastCall.pre
            /\ ~StepCommits(o) => state = lastCall.pre
            /\ state.val.data = lastCall.pre.val.data
            /\ JustStarted(o) => state.val._lastUpdate = lastCall.pre.val._lastUpdate
    /\ BothSettled =>
        LET o == LastSettled
        IN  /\ (ops[o].outcome.kind = "resolved") =>
                    /\ state.val._isLoading = FALSE
                    /\ state.val._error = Null
                    /\ state.val._lastUpdate = ops[o].at
            /\ (ops[o].outcome.kind = "rejected" /\ ops[o].options.setError) =>
                    /\ state.val._isLoading = FALSE
                    /\ state.val._error = ops[o].outcome.value
                    /\ state.val._lastUpdate = ops[o].at

\* call 1 was started before call 2 settled and settled after it, at a later
\* time and with the other outcome
C17_Witness ==
    /\ BothSettled
    /\ ops[1].options = DefaultOptions /\ ops[2].options = DefaultOptions
    /\ ops[2].seq = 1 /\ ops[2].outcome.kind = "rejected" /\ ops[2].at = 1
    /\ ops[1].atInvoke.val._lastUpdate = 0
    /\ ops[1].seq = 2 /\ ops[1].outcome.kind = "resolved" /\ ops[1].at = 2
    /\ state.val._error = Null
    /\ state.val._lastUpdate = 2

----------------------------------------------------------------------------
(* setState with a partial object or with a draft function, on a container *)
(* made by each creation function.  createStore composes devtools only;    *)
(* createImmerStore, createPersistStore, createStoreWithActions and        *)
(* createHybridStore put the immer middleware in front of the container's  *)
(* setState.                                                               *)

Kinds == {"createStore", "createImmerStore", "createPersistStore",
          "createStoreWithActions", "createHybridStore"}

HasImmer(k) == k # "createStore"

\* a state with a nested object
NestedInitialState ==
    [id |-> 1, val |-> [count |-> 0, user |-> [id |-> 2, val |-> [name |-> "ann", age |-> 1]]]]

InitialOf(k) == IF k = "createHybridStore" THEN HybridInitialState ELSE NestedInitialState

\* what the container holds after nextState = undefined was stored
UndefinedState == [id |-> 0, val |-> <<>>]

\* the fields of a state that hold objects
ObjFields(val) == ObjectKeys \cap DOMAIN val

ObjIds(st) == {st.id} \cup {st.val[k].id : k \in ObjFields(st.val)}

RECURSIVE FreshIds(_, _)
FreshIds(used, n) ==
    IF n = 0 THEN <<>>
    ELSE LET f == FreshId(used) IN <<f>> \o FreshIds(used \cup {f}, n - 1)

\* obj[k] = v
SetField(f, k, v) == [x \in (DOMAIN f) \cup {k} |-> IF x = k THEN v ELSE f[x]]

\* the partial objects handed to setState: a primitive field, or a nested
\* object given anew (with other fields than the one it replaces)
Partials(st, nestedId) ==
    IF "data" \in DOMAIN st.val
        THEN {[_isLoading |-> TRUE], [data |-> [id |-> nestedId, val |-> [total |-> 3]]]}
        ELSE {[count |-> 1], [user |-> [id |-> nestedId, val |-> [name |-> "bob"]]]}

\* the assignments a draft function makes, as (path, value)
Edits(k) ==
    IF k = "createHybridStore"
        THEN <<[path |-> <<"_lastUpdate">>, value |-> 7],
               [path |-> <<"data", "items">>, value |-> 1]>>
        ELSE <<[path |-> <<"count">>, value |-> 1],
               [path |-> <<"user", "age">>, value |-> 2]>>

\* draft functions: no assignment, one, or both
DraftFunctions(k) ==
    {<<>>, <<Edits(k)[1]>>, <<Edits(k)[2]>>, Edits(k)}

\* draft.a = v or draft.a.b = v can be executed on val
Assignable(val, e) ==
    /\ val # <<>>
    /\ Len(e.path) = 2 => e.path[1] \in ObjFields(val)

\* one assignment executed on the object itself (nested objects keep their
\* identity)
Assign(val, e) ==
    IF Len(e.path) = 1 THEN SetField(val, e.path[1], e.value)
    ELSE SetField(val, e.path[1],
                  [id |-> val[e.path[1]].id,
                   val |-> SetField(val[e.path[1]].val, e.path[2], e.value)])

\* the function body run on an object: the assignments in order, up to the
\* first that throws a TypeError
RECURSIVE RunEdits(_, _)
RunEdits(val, edits) ==
    IF edits = <<>> THEN [val |-> val, thrown |-> FALSE]
    ELSE IF ~Assignable(val, Head(edits)) THEN [val |-> val, thrown |-> TRUE]
    ELSE RunEdits(Assign(val, Head(edits)), Tail(edits))

\* immer's produce(base, recipe): the recipe runs on a draft; the result is
\* base itself when nothing changed, else a new object in which the changed
\* nested objects are new and the untouched ones are shared with base
Produce(base, edits, ids) ==
    LET v == RunEdits(base.val, edits).val
    IN  IF v = base.val THEN base
        ELSE [id |-> ids[1],
              val |-> [k \in DOMAIN v |->
                        IF k \in ObjFields(v) /\ v[k] # base.val[k]
                            THEN [id |-> ids[2], val |-> v[k].val]
                            ELSE v[k]]]

\* store.setState(fn) on a container of kind k; ids are the identities of
\* the objects created on the way.  With immer: set(produce(fn)), the
\* container calling produce(fn)(state) and merging the result.  Without:
\* the container calls fn(state), which assigns to the state object itself
\* and returns undefined; undefined is then stored as the state, or merged
\* by Object.assign({}, state, undefined), depending on the library version.
\* A function that throws leaves produce with the exception, the base as
\* it was.
SetStateDraft(w, k, edits, ids) ==
    IF HasImmer(k)
        THEN IF RunEdits(w.st.val, edits).thrown THEN {[w EXCEPT !.thrown = TRUE]}
             ELSE SetStateImpl(w, Produce(w.st, edits, ids), FALSE, ids[3])
        ELSE LET run == RunEdits(w.st.val, edits)
                 mutated == [id |-> w.st.id, val |-> run.val]
             IN  IF run.thrown THEN {[w EXCEPT !.st = mutated, !.thrown = TRUE]}
                 ELSE UNION {NotifyAll([w EXCEPT !.st = next, !.pos = 0], next, mutated) :
                                next \in {UndefinedState, [id |-> ids[1], val |-> run.val]}}

MutateReturns(op, arg, w) ==
    /\ state' = w.st
    /\ listeners' = w.order
    /\ status' = w.status
    /\ lastCall' = Call(op, 0, arg, w)
    /\ UNCHANGED <<hist, maxSize, opLog, throwing, kind, asyncVars, pureVars, hookVars>>

\* StoreHelper.setState(partial) with a partial object
SetPartial ==
    LET ids == FreshIds(ObjIds(state), 3)
    IN  \E p \in Partials(state, ids[2]) :
            LET arg == [id |-> ids[1], val |-> p]
            IN  \E w \in SetStateImpl(TheWorld, arg, FALSE, ids[3]) :
                    MutateReturns("setPartial", arg, w)

\* StoreHelper.setState(partial) with a draft function
SetDraft ==
    \E edits \in DraftFunctions(kind) :
        \E w \in SetStateDraft(TheWorld, kind, edits, FreshIds(ObjIds(state), 3)) :
            MutateReturns("setDraft", [id |-> 0, val |-> edits], w)

\* a new container made by one of the creation functions, watched by one
\* hook
InitMutate ==
    /\ kind \in Kinds
    /\ state = InitialOf(kind)
    /\ listeners = <<HookListener>>
    /\ status = [i \in Subs |-> "new"]
    /\ hist = [past |-> <<>>, present |-> InitialState, future |-> <<>>]
    /\ maxSize = DefaultMaxSize
    /\ opLog = <<>>
    /\ lastCall = NoCall
    /\ NoThrowers /\ NoOperations /\ NoFunctionCall /\ NoHooks

NextMutate == SetPartial \/ SetDraft

SpecMutate == InitMutate /\ [][NextMutate]_vars

----------------------------------------------------------------------------
(* Properties of setState *)

\* C18: setState with a partial object performs a one-level shallow merge:
\* every field named in the partial takes the partial's value (a nested
\* object is replaced by the partial's object as a whole), every field not
\* named keeps its previous value by reference, and the resulting state is a
\* new reference, notified once.
C18_SetStateShallowMerge ==
    (lastCall.op = "setPartial") =>
        /\ state.id # lastCall.pre.id
        /\ state.id # lastCall.arg.id
        /\ DOMAIN state.val = (DOMAIN lastCall.pre.val) \cup (DOMAIN lastCall.arg.val)
        /\ \A k \in DOMAIN lastCall.arg.val : state.val[k] = lastCall.arg.val[k]
        /\ \A k \in (DOMAIN lastCall.pre.val) \ (DOMAIN lastCall.arg.val) :
                state.val[k] = lastCall.pre.val[k]
        /\ Len(lastCall.calls) = Len(lastCall.before)
        /\ \A i \in DOMAIN lastCall.calls :
                lastCall.calls[i].new = state /\ lastCall.calls[i].prev = lastCall.pre

\* the nested object user {name, age} is replaced by {name} while count,
\* set by an earlier call, is retained
C18_Witness ==
    /\ lastCall.op = "setPartial"
    /\ kind = "createImmerStore"
    /\ "user" \in DOMAIN lastCall.arg.val
    /\ lastCall.pre.val.user.val = [name |-> "ann", age |-> 2]
    /\ state.val.user.val = [name |-> "bob"]
    /\ state.val.count = 1
    /\ state.val.count = lastCall.pre.val.count

\* C19: on a container made by any creation function, setState given a
\* draft function that makes edits commits, in one notification per
\* subscriber, a new state that contains the edits and retains the
\* untouched fields (by reference), and the state value that was current
\* before the call is not modified: subscribers receive it as previousState
\* as it was.
C19_DraftCommitCopyOnWrite ==
    (lastCall.op = "setDraft" /\ lastCall.pre # UndefinedState
        /\ RunEdits(lastCall.pre.val, lastCall.arg.val).val # lastCall.pre.val) =>
        LET edited == RunEdits(lastCall.pre.val, lastCall.arg.val).val
        IN  /\ ~lastCall.thrown
            /\ state.id # lastCall.pre.id
            /\ DOMAIN state.val = DOMAIN edited
            /\ \A k \in DOMAIN edited :
                    IF k \in ObjFields(edited)
                        THEN /\ state.val[k].val = edited[k].val
                             /\ (edited[k] = lastCall.pre.val[k])
                                    => state.val[k] = lastCall.pre.val[k]
                             /\ (edited[k] # lastCall.pre.val[k])
                                    => state.val[k].id # lastCall.pre.val[k].id
                        ELSE state.val[k] = edited[k]
            /\ Len(lastCall.calls) = Len(lastCall.before)
            /\ \A i \in DOMAIN lastCall.calls :
                    lastCall.calls[i].new = state /\ lastCall.calls[i].prev = lastCall.pre

----------------------------------------------------------------------------
(* deepMergeState.  A JavaScript value is a record tagged t: a number *)
(* n, an array a (of numbers), an object (o maps its keys to values) or a  *)
(* function.  The                                                          *)
(* merge is deepmerge's; clone only decides whether parts of the result    *)
(* are copies, which leaves the result's value as it is.                   *)

MaxNum == 3     \* array elements are 1..MaxNum
MaxLen == 2     \* longest array

Num(n) == [t |-> "num", n |-> n]

Arr(a) == [t |-> "arr", a |-> a]

Obj(f) == [t |-> "obj", o |-> f]

DraftFn == [t |-> "fn"]

Arrays == UNION {[1..n -> 1..MaxNum] : n \in 0..MaxLen}

\* the options argument: arrayMerge given or left out
MergeOptions ==
    {[clone |-> TRUE]}
        \cup {[clone |-> TRUE, arrayMerge |-> p] : p \in {"concat", "replace", "merge-by-index"}}

\* non-null objects, arrays included
isMergeableObject(x) == x.t \in {"obj", "arr"}

\* mutant of the array policy: merge-by-index overwrites the destination's
\* elements index by index and keeps the rest of the destination
arrayMergeByIndex(policy, destinationArray, sourceArray) ==
    IF policy = "concat" THEN destinationArray \o sourceArray
    ELSE IF policy = "replace" THEN sourceArray
    ELSE [i \in 1..(IF Len(destinationArray) > Len(sourceArray)
                        THEN Len(destinationArray) ELSE Len(sourceArray)) |->
            IF i <= Len(sourceArray) THEN sourceArray[i] ELSE destinationArray[i]]

\* mergeOptions.arrayMerge
arrayMerge(policy, destinationArray, sourceArray) ==
    IF policy = "concat" THEN destinationArray \o sourceArray
    ELSE IF policy = "replace" THEN sourceArray
    ELSE sourceArray

RECURSIVE deepmerge(_, _, _)
RECURSIVE mergeObject(_, _, _)

\* the target's keys, then the source's: a key of both whose source value is
\* an object or array is merged, any other source value is taken
mergeObject(target, source, policy) ==
    LET tkeys == IF target.t = "obj" THEN DOMAIN target.o ELSE {}
        skeys == DOMAIN source.o
    IN  Obj([k \in tkeys \cup skeys |->
                IF k \notin skeys THEN target.o[k]
                ELSE IF k \in tkeys /\ isMergeableObject(source.o[k])
                    THEN deepmerge(target.o[k], source.o[k], policy)
                    ELSE source.o[k]])

deepmerge(target, source, policy) ==
    IF (source.t = "arr") # (target.t = "arr") THEN source
    ELSE IF source.t = "arr" THEN Arr(arrayMerge(policy, target.a, source.a))
    ELSE mergeObject(target, source, policy)

deepMergeState(current, partial, options) ==
    LET policy == IF "arrayMerge" \in DOMAIN options THEN options.arrayMerge
                                                      ELSE "merge-by-index"
    IN  IF partial.t = "fn" THEN current
        ELSE deepmerge(current, partial, policy)

\* the calls studied, by shape: arrays a and b under one key, at the top
\* ("flat") and one level down next to keys only one side has ("nested"), a
\* key that is an array on one side only, and a function as partial
Shapes == {"flat", "nested", "object over array", "array over number", "function"}

MergeInput(shape, a, b) ==
    LET flat(x) == Obj([items |-> Arr(x)])
        nested(x) == Obj([meta |-> Obj([items |-> Arr(x), n |-> Num(1)]), n |-> Num(1)])
    IN  CASE shape = "flat" ->
                [current |-> flat(a), partial |-> flat(b)]
          [] shape = "nested" ->
                [current |-> nested(a),
                 partial |-> Obj([meta |-> Obj([items |-> Arr(b), m |-> Num(2)])])]
          [] shape = "object over array" ->
                [current |-> flat(a), partial |-> Obj([items |-> Obj([n |-> Num(2)])])]
          [] shape = "array over number" ->
                [current |-> Obj([items |-> Num(1)]), partial |-> flat(b)]
          [] shape = "function" ->
                [current |-> flat(a), partial |-> DraftFn]

NotCalled == [t |-> "none"]

\* deepMergeState(current, partial, options) is called
DeepMergeCall ==
    /\ output = NotCalled
    /\ output' = deepMergeState(input.current, input.partial, input.options)
    /\ UNCHANGED <<state, listeners, status, hist, maxSize, opLog, lastCall,
                   throwing, kind, asyncVars, input, hookVars>>

InitDeepMerge ==
    /\ \E shape \in Shapes, a \in Arrays, b \in Arrays, o \in MergeOptions :
            LET i == MergeInput(shape, a, b)
            IN  input = [current |-> i.current, partial |-> i.partial, options |-> o]
    /\ output = NotCalled
    /\ state = InitialState
    /\ listeners = <<>>
    /\ status = [i \in Subs |-> "new"]
    /\ hist = [past |-> <<>>, present |-> InitialState, future |-> <<>>]
    /\ maxSize = DefaultMaxSize
    /\ opLog = <<>>
    /\ lastCall = NoCall
    /\ NoThrowers /\ PlainContainer /\ NoOperations /\ NoHooks

NextDeepMerge == DeepMergeCall

SpecDeepMerge == InitDeepMerge /\ [][NextDeepMerge]_vars

----------------------------------------------------------------------------
(* Properties of deepMergeState *)

\* the array two arrays under one key are to give under the policy asked for
ExpectedArray(a, b) ==
    IF "arrayMerge" \in DOMAIN input.options /\ input.options.arrayMerge = "concat"
        THEN a \o b ELSE b

\* r has the keys of c and p, those of one side only with that side's value,
\* and for a key of both the merged arrays, else p's value
MergedLeaves(c, p, r) ==
    /\ DOMAIN r = (DOMAIN c) \cup (DOMAIN p)
    /\ \A k \in (DOMAIN c) \ (DOMAIN p) : r[k] = c[k]
    /\ \A k \in (DOMAIN p) \ (DOMAIN c) : r[k] = p[k]
    /\ \A k \in (DOMAIN c) \cap (DOMAIN p) :
            IF c[k].t = "arr" /\ p[k].t = "arr"
                THEN r[k] = Arr(ExpectedArray(c[k].a, p[k].a))
                ELSE r[k] = p[k]

\* C20: deepMergeState merges objects key by key, recursively, and arrays by
\* the policy given: under concat the destination's elements followed by the
\* source's ({items: [1,2]} with {items: [3]} gives [1,2,3]), under replace
\* and under merge-by-index (the default) the source array ([3]).
C20_DeepMergeArrayPolicy ==
    (output # NotCalled /\ input.partial.t = "obj") =>
        LET c == input.current.o
            p == input.partial.o
            r == output.o
        IN  /\ output.t = "obj"
            /\ DOMAIN r = (DOMAIN c) \cup (DOMAIN p)
            /\ \A k \in (DOMAIN c) \ (DOMAIN p) : r[k] = c[k]
            /\ \A k \in (DOMAIN p) \ (DOMAIN c) : r[k] = p[k]
            /\ \A k \in (DOMAIN c) \cap (DOMAIN p) :
                    IF c[k].t = "arr" /\ p[k].t = "arr"
                        THEN r[k] = Arr(ExpectedArray(c[k].a, p[k].a))
                    ELSE IF c[k].t = "obj" /\ p[k].t = "obj"
                        THEN r[k].t = "obj" /\ MergedLeaves(c[k].o, p[k].o, r[k].o)
                    ELSE r[k] = p[k]

C20_Witness ==
    /\ input.current = Obj([items |-> Arr(<<1, 2>>)])
    /\ input.partial = Obj([items |-> Arr(<<3>>)])
    /\ input.options = [clone |-> TRUE, arrayMerge |-> "concat"]
    /\ output = Obj([items |-> Arr(<<1, 2, 3>>)])

----------------------------------------------------------------------------
(* StoreHelper.mergeState(partial, 'deep') on a container whose state holds *)
(* an array: the fields of the state are values as deepMergeState takes     *)
(* them.                                                                    *)

\* the partials handed over: an object with an array, or a function
DeepPartials == {Obj([items |-> Arr(b)]) : b \in Arrays} \cup {DraftFn}

\* the deep branch of mergeState(partial, strategy): mergeState has the two
\* parameters only and calls deepMergeState(current, partial), the options
\* left out; the merged object is then handed to setState.  ids are the
\* identities of the merged object and of the one Object.assign creates.
mergeStateDeep(w, partial, ids) ==
    LET current == w.st
        merged == deepMergeState(Obj(current.val), partial, [clone |-> TRUE])
    IN  SetStateImpl(w, [id |-> ids[1], val |-> merged.o], FALSE, ids[2])

\* mergeState(partial, 'deep') called by code that wants the array policy
\* wanted for this call
MergeStateDeep ==
    \E partial \in DeepPartials, wanted \in MergeOptions :
        \E w \in mergeStateDeep(TheWorld, partial, FreshIds({state.id}, 2)) :
            MutateReturns("mergeState", [partial |-> partial, wanted |-> wanted], w)

InitMergeDeep ==
    /\ \E a \in Arrays : state = [id |-> 1, val |-> [items |-> Arr(a), n |-> Num(1)]]
    /\ kind \in {"createStore", "createImmerStore"}
    /\ listeners = <<HookListener>>
    /\ status = [i \in Subs |-> "new"]
    /\ hist = [past |-> <<>>, present |-> InitialState, future |-> <<>>]
    /\ maxSize = DefaultMaxSize
    /\ opLog = <<>>
    /\ lastCall = NoCall
    /\ NoThrowers /\ NoOperations /\ NoFunctionCall /\ NoHooks

NextMergeDeep == MergeStateDeep

SpecMergeDeep == InitMergeDeep /\ [][NextMergeDeep]_vars

\* C21: a deep merge through mergeState(partial, 'deep') made with the
\* concat policy leaves under an array key the current array's elements
\* followed by the source array's.
C21_MergeStateDeepConcat ==
    (/\ lastCall.op = "mergeState"
     /\ lastCall.arg.partial # DraftFn
     /\ "arrayMerge" \in DOMAIN lastCall.arg.wanted
     /\ lastCall.arg.wanted.arrayMerge = "concat")
        => state.val.items = Arr(lastCall.pre.val.items.a \o lastCall.arg.partial.o.items.a)

----------------------------------------------------------------------------
(* StoreHelper calls that commit a whole object or run a function on a     *)
(* copy: batchUpdate, mergeState, replaceState, resetState, with watchers  *)
(* registered through subscribeTo.  The state has a nested object.         *)

\* the assignments an updater function makes, in this order: newState.count
\* = 1, newState.user.age = 2, newState.user = {name: 'bob'}
UpdaterEdits(newId) ==
    <<[path |-> <<"count">>, value |-> 1],
      [path |-> <<"user", "age">>, value |-> 2],
      [path |-> <<"user">>, value |-> [id |-> newId, val |-> [name |-> "bob"]]]>>

\* an assignment through a property the object lacks: a TypeError is thrown
Throw == [path |-> <<"missing", "x">>, value |-> 0]

\* the entries of e with an index in S, in order
Pick(e, S) ==
    LET F[i \in 0..Len(e)] ==
            IF i = 0 THEN <<>>
            ELSE IF i \in S THEN Append(F[i - 1], e[i]) ELSE F[i - 1]
    IN  F[Len(e)]

\* updater functions: any of the assignments (those with an index in S),
\* then possibly a throw
UpdaterFunction(newId, S, throws) ==
    Pick(UpdaterEdits(newId), S) \o (IF throws THEN <<Throw>> ELSE <<>>)

\* the functions studied: no assignment, one, two or all three
UpdaterShapes ==
    {[S |-> S, throws |-> t] : S \in {{}, {1}, {2}, {1, 3}, {1, 2, 3}}, t \in BOOLEAN}

Throws(updater) == updater # <<>> /\ Last(updater) = Throw

\* the function body run on copy, a shallow copy of the object current: an
\* assignment to a field changes the copy alone, an assignment into a
\* nested object changes that object, which current holds too as long as
\* the copy's field has not been reassigned
RECURSIVE RunOnCopy(_, _, _)
RunOnCopy(current, copy, edits) ==
    IF edits = <<>> THEN [current |-> current, copy |-> copy, thrown |-> FALSE]
    ELSE LET e == Head(edits)
             nested == Len(e.path) = 2
         IN  IF nested /\ e.path[1] \notin ObjFields(copy)
                 THEN [current |-> current, copy |-> copy, thrown |-> TRUE]
             ELSE LET shared == /\ nested
                                /\ e.path[1] \in ObjFields(current)
                                /\ current[e.path[1]].id = copy[e.path[1]].id
                  IN  RunOnCopy(IF shared THEN Assign(current, e) ELSE current,
                                Assign(copy, e), Tail(edits))

\* newState = {...state}; updater(newState); this.setState(newState), made
\* in the world w1 in which the objects the updater reached have its edits
CommitCopy(w, updater, ids) ==
    LET run == RunOnCopy(w.st.val, w.st.val, updater)
        w1 == [w EXCEPT !.st = [id |-> w.st.id, val |-> run.current]]
    IN  IF run.thrown THEN {[w1 EXCEPT !.thrown = TRUE]}
        ELSE SetStateImpl(w1, [id |-> ids[1], val |-> run.copy], FALSE, ids[2])

\* mutant of batchUpdate: a second commit of the same fields
batchUpdateTwoCommits(w, updater, ids) ==
    UNION {SetStateImpl(w2, [id |-> ids[3], val |-> w2.st.val], FALSE, ids[4]) :
                w2 \in CommitCopy(w, updater, ids)}

\* StoreHelper.batchUpdate(updater)
batchUpdate(w, updater, ids) == CommitCopy(w, updater, ids)

\* mutant of replaceState: the object is merged into the state
replaceStateMerging(w, s, newId) == SetStateImpl(w, s, FALSE, newId)

\* StoreHelper.replaceState(state): this.store.setState(state, true)
replaceState(w, s, newId) == SetStateImpl(w, s, TRUE, newId)

\* StoreHelper.resetState(initialState)
resetState(w, initialState, newId) == replaceState(w, initialState, newId)

\* StoreHelper.mergeState(partial, strategy) on a container of kind k;
\* partial is a function (fn, its assignments) or an object (obj).  The
\* deep branch is here for a function, for which deepMergeState returns
\* {...current}
mergeState(w, k, partial, strategy, ids) ==
    LET isFunction == "fn" \in DOMAIN partial
    IN  IF strategy = "shallow"
            THEN IF isFunction THEN SetStateDraft(w, k, partial.fn, ids)
                 ELSE SetStateImpl(w, partial.obj, FALSE, ids[2])
        ELSE IF strategy = "deep"
            THEN SetStateImpl(w, [id |-> ids[1], val |-> w.st.val], FALSE, ids[2])
        ELSE IF isFunction THEN CommitCopy(w, partial.fn, ids)
             ELSE replaceState(w, partial.obj, ids[2])

\* the objects handed over as a whole state: one without the user field,
\* the initial values anew, and the current state itself
WholeStates(st, ids) ==
    {[id |-> ids[1], val |-> [count |-> 5]],
     [id |-> ids[1], val |-> [count |-> 0,
                              user |-> [id |-> ids[2], val |-> [name |-> "ann", age |-> 1]]]],
     st}

\* the mergeState calls studied: a function under 'replace', under 'deep'
\* and, when it throws, under 'shallow'; an object under 'shallow' and under
\* 'replace'
MergeCalls ==
    {[fn |-> u, strategy |-> "replace"] : u \in {v \in UpdaterShapes : v.S = {2}}}
        \cup {[fn |-> [S |-> {}, throws |-> FALSE], strategy |-> "deep"]}
        \cup {[fn |-> u, strategy |-> "shallow"] :
                u \in {v \in UpdaterShapes : v.throws /\ v.S \in {{1}, {2}}}}
        \cup {[obj |-> key, strategy |-> s] :
                key \in {"count", "user"}, s \in {"shallow", "replace"}}

\* the partial of the call c
PartialOf(c, st, ids) ==
    IF "fn" \in DOMAIN c THEN [fn |-> UpdaterFunction(ids[3], c.fn.S, c.fn.throws)]
    ELSE [obj |-> [id |-> ids[1],
                   val |-> CHOOSE p \in Partials(st, ids[3]) : c.obj \in DOMAIN p]]

HelperIds == FreshIds(ObjIds(state), 4)

BatchUpdate ==
    \E u \in UpdaterShapes :
        LET updater == UpdaterFunction(HelperIds[3], u.S, u.throws)
        IN  \E w \in batchUpdate(TheWorld, updater, HelperIds) :
                MutateReturns("batchUpdate", updater, w)

MergeState ==
    \E c \in MergeCalls :
        LET partial == PartialOf(c, state, HelperIds)
        IN  \E w \in mergeState(TheWorld, kind, partial, c.strategy, HelperIds) :
                MutateReturns("mergeState", [partial |-> partial, strategy |-> c.strategy], w)

ReplaceState ==
    \E s \in WholeStates(state, HelperIds) :
        \E w \in replaceState(TheWorld, s, HelperIds[3]) :
            MutateReturns("replaceState", s, w)

ResetState ==
    \E s \in {x \in WholeStates(state, HelperIds) : "user" \in DOMAIN x.val} :
        \E w \in resetState(TheWorld, s, HelperIds[3]) :
            MutateReturns("resetState", s, w)

\* StoreHelper.subscribeTo(key, callback, {fireImmediately}) for a key not
\* yet watched
subscribeTo(w, i, fireImmediately) ==
    LET key == WatchedKeys[i]
        w1 == IF fireImmediately
                THEN [w EXCEPT !.fired = Append(@, [key |-> key, value |-> Prop(w.st, key),
                                                    previousValue |-> Prop(w.st, key)])]
                ELSE w
    IN  [w1 EXCEPT !.order = SetAdd(@, Watcher(i))]

SubscribeTo ==
    \E i \in DOMAIN WatchedKeys, fireImmediately \in BOOLEAN :
        /\ ~InSeq(Watcher(i), listeners)
        /\ MutateReturns("subscribeTo", [key |-> WatchedKeys[i]],
                         subscribeTo(TheWorld, i, fireImmediately))

InitHelper ==
    /\ kind \in {"createStore", "createImmerStore"}
    /\ state = NestedInitialState
    /\ listeners = <<HookListener>>
    /\ status = [i \in Subs |-> "new"]
    /\ hist = [past |-> <<>>, present |-> InitialState, future |-> <<>>]
    /\ maxSize = DefaultMaxSize
    /\ opLog = <<>>
    /\ lastCall = NoCall
    /\ NoThrowers /\ NoOperations /\ NoFunctionCall /\ NoHooks

NextHelper == BatchUpdate \/ MergeState \/ ReplaceState \/ ResetState \/ SubscribeTo

SpecHelper == InitHelper /\ [][NextHelper]_vars

----------------------------------------------------------------------------
(* Properties of the StoreHelper calls *)

\* the call ended with an exception of the function handed over, or was a
\* deep merge handed a function
CouldNotComplete ==
    \/ lastCall.op \in {"batchUpdate", "mergeState"} /\ lastCall.thrown
    \/ /\ lastCall.op = "mergeState"
       /\ lastCall.arg.strategy = "deep"
       /\ "fn" \in DOMAIN lastCall.arg.partial

\* C22: when the function handed to batchUpdate, to mergeState(fn, 'replace')
\* or to setState throws part-way, or mergeState(partial, 'deep') gets a
\* partial that is no mergeable object, no subscriber is notified and the
\* state is as before the call, nested fields included.
C22_FailedCommitLeavesState ==
    CouldNotComplete => lastCall.calls = <<>> /\ state = lastCall.pre

\* one notification went to each listener registered, with (st, prev)
NotifiedOnce(st, prev) ==
    /\ Len(lastCall.calls) = Len(lastCall.before)
    /\ \A i \in DOMAIN lastCall.calls :
            lastCall.calls[i] = [who |-> lastCall.before[i], new |-> st, prev |-> prev]

C24_WatcherFiresOnReferenceChange ==
    lastCall.op \in {"batchUpdate", "mergeState", "replaceState", "resetState"} =>
        \A i \in DOMAIN WatchedKeys :
            InSeq(Watcher(i), lastCall.before) =>
                LET key == WatchedKeys[i]
                    now == Prop(state, key)
                    was == Prop(lastCall.pre, key)
                    f == SelectSeq(lastCall.fired, LAMBDA x : x.key = key)
                    c == SelectSeq(lastCall.calls, LAMBDA x : x.who = Watcher(i))
                IN  /\ Len(c) <= 1
                    /\ ~StrictNotEqual(now, was, key) => f = <<>>
                    /\ IF c # <<>> /\ StrictNotEqual(Prop(c[1].new, key), Prop(c[1].prev, key), key)
                            THEN f = <<[key |-> key, value |-> Prop(c[1].new, key),
                                        previousValue |-> Prop(c[1].prev, key)]>>
                            ELSE f = <<>>

C24_Witness ==
    /\ lastCall.op = "mergeState"
    /\ Len(lastCall.before) = 3
    /\ Len(lastCall.calls) = 3
    /\ Len(lastCall.fired) = 1
    /\ lastCall.fired[1].key = "user"
    /\ lastCall.fired[1].value.v.id # lastCall.fired[1].previousValue.v.id
    /\ state.val.count = lastCall.pre.val.count

\* C25: after replaceState(s) or resetState(s) with an object s other than
\* the current state, the state is s itself, fields of the previous state
\* that s lacks are gone, and every subscriber got one notification
\* (s, previous state).
C25_ReplaceStateBypassesMerge ==
    (lastCall.op \in {"replaceState", "resetState"} /\ lastCall.arg.id # lastCall.pre.id) =>
        /\ state = lastCall.arg
        /\ NotifiedOnce(lastCall.arg, lastCall.pre)

C25_Witness ==
    /\ lastCall.op = "replaceState"
    /\ "user" \in DOMAIN lastCall.pre.val
    /\ "user" \notin DOMAIN state.val
    /\ state.id = lastCall.arg.id
    /\ Len(lastCall.calls) = 3

----------------------------------------------------------------------------
(* The read layer: the snapshot functions the hooks hand to                *)
(* useSyncExternalStore, called by React whenever it wants the current     *)
(* value.  A value read is an object (id, val), a primitive, null or a     *)
(* boolean.                                                                *)

Prim(x) == [prim |-> x]

Bool(b) == [bool |-> b]

IsObject(v) == "id" \in DOMAIN v

\* a === b
StrictEqual(a, b) == IF IsObject(a) /\ IsObject(b) THEN a.id = b.id ELSE a = b

\* deepEquals(a, b) on values whose fields hold primitives
deepEquals(a, b) ==
    IF StrictEqual(a, b) THEN TRUE
    ELSE IF a = Null \/ b = Null THEN FALSE
    ELSE IF ~IsObject(a) \/ ~IsObject(b) THEN FALSE
    ELSE /\ Cardinality(DOMAIN a.val) = Cardinality(DOMAIN b.val)
         /\ \A key \in DOMAIN a.val : key \in DOMAIN b.val /\ a.val[key] = b.val[key]

\* the selectors and getters studied: s => s.count, s => s.user,
\* s => ({count: s.count}), which builds an object on each call as
\* useCoupon's selector does, and s => s.count > 0 ? s.user : null
Selectors == {"count", "user", "coupon"}

Getters == {"count", "coupon", "userIfCounted"}

Select(selector, st, newId) ==
    CASE selector = "count" -> Prim(st.val.count)
      [] selector = "user" -> st.val.user
      [] selector = "coupon" -> [id |-> newId, val |-> [count |-> st.val.count]]
      [] selector = "userIfCounted" -> IF st.val.count > 0 THEN st.val.user ELSE Null

\* customEquals of a getter: left out, () => true or () => false
EqualityFunctions == {"deepEquals", "always", "never"}

equalsFn(customEquals, a, b) ==
    IF customEquals = "always" THEN TRUE
    ELSE IF customEquals = "never" THEN FALSE
    ELSE deepEquals(a, b)

\* the objects a new object must differ from: those of the state and those
\* a reader still holds
HeldIds(v) == IF v # <<>> /\ IsObject(v) THEN {v.id} ELSE {}

LiveRefs ==
    ObjIds(state) \cup (IF prevRef = <<>> THEN {} ELSE HeldIds(prevRef.current))
                  \cup (IF output = <<>> THEN {} ELSE HeldIds(output.value))

\* a snapshot leaves the world as it is and returns value
Snapshot(w, value) == [w |-> w, value |-> value, ref |-> prevRef, fresh |-> value]

\* useStore: store.getState
useStore(w) == Snapshot(w, w.st)

\* useSelector(selector): () => selector(store.getState())
useSelector(w, selector, newId) == Snapshot(w, Select(selector, w.st, newId))

\* useShallowSelector(selector): the same snapshot function; the comparison
\* handed over as fourth argument is no parameter of useSyncExternalStore
useShallowSelector(w, selector, newId) == Snapshot(w, Select(selector, w.st, newId))

\* mutant of useStoreField: the snapshot commits what it read
useStoreFieldCommitting(w, key, newId) ==
    LET value == IF key \in ObjectKeys THEN w.st.val[key] ELSE Prim(w.st.val[key])
    IN  Snapshot(CHOOSE w2 \in SetStateImpl(w, [id |-> newId, val |-> w.st.val], TRUE, newId) : TRUE,
                 value)

\* useStoreField(store, key): () => store.getState()[key]
useStoreField(w, key, newId) ==
    Snapshot(w, IF key \in ObjectKeys THEN w.st.val[key] ELSE Prim(w.st.val[key]))

\* useStoreFields(store, keys): a new object with the fields named
useStoreFields(w, keys, newId) ==
    Snapshot(w, [id |-> newId, val |-> [k \in keys |-> w.st.val[k]]])

\* mutant of the getter's snapshot: no cache
getterSnapshotNoCache(w, ref, getter, customEquals, newId) ==
    LET current == Select(getter, w.st, newId)
    IN  [w |-> w, value |-> current, ref |-> ref, fresh |-> current]

\* the snapshot function of one getter made by createGetterHook, prevRef
\* being ref
getterSnapshot(w, ref, getter, customEquals, newId) ==
    LET current == Select(getter, w.st, newId)
    IN  IF ref.current = Null
            THEN [w |-> w, value |-> current, ref |-> [current |-> current], fresh |-> current]
        ELSE IF equalsFn(customEquals, ref.current, current)
            THEN [w |-> w, value |-> ref.current, ref |-> ref, fresh |-> current]
        ELSE [w |-> w, value |-> current, ref |-> [current |-> current], fresh |-> current]

\* a read returns: r is the snapshot's result; output keeps the value read
\* and, when the read before it was the same read with no commit in
\* between, the value that one returned
ReadReturns(hook, arg, r) ==
    /\ state' = r.w.st
    /\ listeners' = r.w.order
    /\ status' = r.w.status
    /\ hist' = r.w.h
    /\ prevRef' = r.ref
    /\ lastCall' = Call(hook, 0, arg, r.w)
    /\ output' = [hook |-> hook, arg |-> arg, value |-> r.value,
                  cached |-> IF prevRef = <<>> THEN Null ELSE prevRef.current,
                  fresh |-> r.fresh,
                  before |-> IF output # <<>> /\ output.hook = hook /\ output.arg = arg
                                THEN <<output.value>> ELSE <<>>]
    /\ UNCHANGED <<maxSize, opLog, throwing, kind, asyncVars, input, storage>>

ReadUseStore == ReadReturns("useStore", "state", useStore(TheWorld))

ReadUseSelector ==
    \E selector \in Selectors :
        ReadReturns("useSelector", selector,
                    useSelector(TheWorld, selector, FreshId(LiveRefs)))

ReadUseShallowSelector ==
    \E selector \in Selectors :
        ReadReturns("useShallowSelector", selector,
                    useShallowSelector(TheWorld, selector, FreshId(LiveRefs)))

ReadUseStoreField ==
    \E key \in {"count", "user"} :
        ReadReturns("useStoreField", key, useStoreField(TheWorld, key, FreshId(LiveRefs)))

ReadUseStoreFields ==
    ReadReturns("useStoreFields", "count, user",
                useStoreFields(TheWorld, {"count", "user"}, FreshId(LiveRefs)))

ReadCanUndo == ReadReturns("canUndo", "history", Snapshot(TheWorld, Bool(canUndo)))

ReadCanRedo == ReadReturns("canRedo", "history", Snapshot(TheWorld, Bool(canRedo)))

ReadGetter ==
    ReadReturns("getter", input.getter,
                getterSnapshot(TheWorld, prevRef, input.getter, input.customEquals,
                               FreshId(LiveRefs)))

\* store.setState(partial) between the reads
ReadSetState ==
    LET ids == FreshIds(LiveRefs, 3)
    IN  \E p \in Partials(state, ids[2]) :
            LET arg == [id |-> ids[1], val |-> p]
            IN  \E w \in SetStateImpl(TheWorld, arg, FALSE, ids[3]) :
                    /\ state' = w.st
                    /\ listeners' = w.order
                    /\ status' = w.status
                    /\ hist' = w.h
                    /\ lastCall' = Call("setState", 0, arg, w)
                    /\ output' = <<>>
                    /\ UNCHANGED <<maxSize, opLog, throwing, kind, asyncVars, input, hookVars>>

\* a container read by a component that uses the hooks of createUseStore
\* and useHistoryState (maxSize 1)
InitRead ==
    /\ state = NestedInitialState
    /\ listeners = <<HookListener, HistListener>>
    /\ status = [i \in Subs |-> "new"]
    /\ hist = [past |-> <<>>, present |-> NestedInitialState, future |-> <<>>]
    /\ maxSize = 1
    /\ opLog = <<>>
    /\ lastCall = NoCall
    /\ NoThrowers /\ PlainContainer /\ NoOperations /\ NoFunctionCall /\ NoHooks

NextRead ==
    \/ ReadUseStore \/ ReadUseSelector \/ ReadUseShallowSelector
    \/ ReadUseStoreField \/ ReadUseStoreFields
    \/ ReadCanUndo \/ ReadCanRedo
    \/ ReadSetState

SpecRead == InitRead /\ [][NextRead]_vars

\* a container read through one getter made by createGetterHook(store) with
\* (getter, customEquals)
InitGetter ==
    /\ state = NestedInitialState
    /\ listeners = <<HookListener>>
    /\ status = [i \in Subs |-> "new"]
    /\ hist = [past |-> <<>>, present |-> InitialState, future |-> <<>>]
    /\ maxSize = DefaultMaxSize
    /\ opLog = <<>>
    /\ lastCall = NoCall
    /\ input \in [getter : Getters, customEquals : EqualityFunctions]
    /\ output = <<>>
    /\ prevRef = [current |-> Null]
    /\ storage = <<>>
    /\ NoThrowers /\ PlainContainer /\ NoOperations

NextGetter == ReadGetter \/ ReadSetState

SpecGetter == InitGetter /\ [][NextGetter]_vars

----------------------------------------------------------------------------
(* Properties of the read layer *)

\* the objects or primitives a and b have the same fields and values
SameContent(a, b) == IF IsObject(a) /\ IsObject(b) THEN a.val = b.val ELSE a = b

\* C26: a selector read returns the value the read before it returned, the
\* same reference, whenever the value now computed equals it; so two reads
\* in a row with no commit in between return the same reference, also for a
\* selector that builds an object on each call.
C26_SelectorReadKeepsReference ==
    (/\ output # <<>>
     /\ output.hook \in {"useSelector", "useShallowSelector"}
     /\ output.before # <<>>
     /\ SameContent(output.before[1], output.fresh))
        => StrictEqual(output.value, output.before[1])

\* C27: a read through one getter of createGetterHook computes
\* getter(getState()); when a value is cached and the equality function
\* (customEquals if given, else deep equality) finds the cached and the new
\* value equal, the cached reference is returned and stays cached; else the
\* new value is returned and is cached.
C27_GetterCache ==
    (output # <<>> /\ output.hook = "getter") =>
        LET same == CASE input.customEquals = "always" -> TRUE
                      [] input.customEquals = "never" -> FALSE
                      [] OTHER -> SameContent(output.cached, output.fresh)
        IN  /\ SameContent(output.fresh, Select(input.getter, state, 0))
            /\ IF output.cached # Null /\ same
                   THEN output.value = output.cached /\ prevRef.current = output.cached
                   ELSE output.value = output.fresh /\ prevRef.current = output.fresh

C27_Witness ==
    /\ output # <<>>
    /\ output.hook = "getter"
    /\ input = [getter |-> "coupon", customEquals |-> "deepEquals"]
    /\ output.cached # Null
    /\ output.fresh.id # output.cached.id
    /\ output.value = output.cached

\* C28: a read through useStore, useSelector, useShallowSelector, the field
\* projections, canUndo or canRedo leaves the container state and the
\* subscriber set as they were and notifies no subscriber.
C28_ReadsChangeNothing ==
    lastCall.op \in {"useStore", "useSelector", "useShallowSelector", "useStoreField",
                     "useStoreFields", "canUndo", "canRedo"} =>
        /\ state = lastCall.pre
        /\ listeners = lastCall.before
        /\ lastCall.calls = <<>>

C28_Witness ==
    /\ lastCall.op = "useStoreField"
    /\ output.before # <<>>
    /\ output.value = output.before[1]
    /\ Len(hist.past) = 1
    /\ Len(listeners) = 2

----------------------------------------------------------------------------
(* A container made by createPersistStore: the persist middleware reads    *)
(* the stored item when the container is made and writes the partialized   *)
(* state after every setState.  The adapter's calls may fail: a            *)
(* synchronous adapter (localStorage, the default) throws, an asynchronous *)
(* one returns a promise that is rejected.                                 *)

\* what setItem receives, as JSON holds it: partialize keeps the user field
\* (as in user.example), and serialization keeps contents, not identities
PersistedValue(st) == [state |-> [user |-> st.val.user.val], version |-> 1]

\* the items the storage may hold when the container is made
StoredItems == {Null, [state |-> [user |-> [name |-> "bob"]], version |-> 1]}

GetItemOutcomes == {"returns", "throws"}

SetItemOutcomes == {"stored", "throws", "rejects"}

\* the state after creation: the stored state merged over initialState when
\* getItem returns an item, initialState when it returns null or fails
\* (the failure is caught and handed to onRehydrateStorage)
hydrate(initialState, stored, getItem, ids) ==
    IF getItem = "throws" \/ stored = Null THEN initialState
    ELSE [id |-> ids[1],
          val |-> ShallowMerge(initialState.val,
                               [user |-> [id |-> ids[2], val |-> stored.state.user]])]

\* setState of the persisted container: the setState of the container
\* below, then setItem(); an exception of a synchronous setItem leaves
\* setState
persistSetState(w, sto, arg, replace, newId, outcome) ==
    {IF w2.thrown THEN [w |-> w2, sto |-> [sto EXCEPT !.setItem = <<>>]]
     ELSE LET value == PersistedValue(w2.st)
          IN  [w |-> [w2 EXCEPT !.thrown = (outcome = "throws")],
               sto |-> [item |-> IF outcome = "stored" THEN value ELSE sto.item,
                        setItem |-> <<[value |-> value, outcome |-> outcome]>>]]
        : w2 \in SetStateImpl(w, arg, replace, newId)}

PersistSetState ==
    LET ids == FreshIds(ObjIds(state), 3)
    IN  \E p \in Partials(state, ids[2]), outcome \in SetItemOutcomes :
            LET arg == [id |-> ids[1], val |-> p]
            IN  \E r \in persistSetState(TheWorld, storage, arg, FALSE, ids[3], outcome) :
                    /\ state' = r.w.st
                    /\ listeners' = r.w.order
                    /\ status' = r.w.status
                    /\ storage' = r.sto
                    /\ lastCall' = Call("setState", 0, arg, r.w)
                    /\ UNCHANGED <<hist, maxSize, opLog, throwing, kind, asyncVars,
                                   pureVars, prevRef>>

InitPersist ==
    /\ kind = "createPersistStore"
    /\ \E stored \in StoredItems, getItem \in GetItemOutcomes :
            /\ state = hydrate(NestedInitialState, stored, getItem, <<3, 4>>)
            /\ storage = [item |-> stored, setItem |-> <<>>]
    /\ listeners = <<HookListener>>
    /\ status = [i \in Subs |-> "new"]
    /\ hist = [past |-> <<>>, present |-> InitialState, future |-> <<>>]
    /\ maxSize = DefaultMaxSize
    /\ opLog = <<>>
    /\ lastCall = NoCall
    /\ prevRef = <<>>
    /\ NoThrowers /\ NoOperations /\ NoFunctionCall

NextPersist == PersistSetState

SpecPersist == InitPersist /\ [][NextPersist]_vars

\* C29: on a persisted container a setState commits the new state, notifies
\* the subscribers, hands the partialized state to setItem and returns
\* without an exception, whether or not the adapter fails.
C29_PersistFailureIsolated ==
    lastCall.op = "setState" =>
        /\ state.val = ShallowMerge(lastCall.pre.val, lastCall.arg.val)
        /\ Len(lastCall.calls) = Len(lastCall.before)
        /\ Len(storage.setItem) = 1
        /\ storage.setItem[1].value = PersistedValue(state)
        /\ ~lastCall.thrown

----------------------------------------------------------------------------
(* The loading and error fields of a hybrid container *)

\* C30: on a hybrid container whose _isLoading and _error are written by
\* wrapAsyncOperation calls only, whatever their options and however they
\* overlap, _isLoading = true and _error not null never hold together.
C30_LoadingExcludesError ==
    ~(state.val._isLoading = TRUE /\ state.val._error # Null)

\* a call failed and left its error while another call, started with
\* setLoading before it, is still in flight
C30_Witness ==
    \E o \in Operations, q \in Operations :
        /\ o # q
        /\ JustSettled(o)
        /\ ops[o].outcome.kind = "rejected"
        /\ ops[o].options.setError
        /\ ops[q].pc = "pending"
        /\ ops[q].options.setLoading
        /\ state.val._error = ops[o].outcome.value
        /\ state.val._isLoading = FALSE

----------------------------------------------------------------------------
(* Overlapping calls of wrapAsyncOperation *)

\* call o is between its pending commit and the settlement of operation()
AwaitingWithLoading(o) == ops[o].pc = "pending" /\ ops[o].options.setLoading

\* C31: while at least one call of wrapAsyncOperation that was started with
\* setLoading is still awaiting its operation, getState()._isLoading is
\* true, whatever other calls have started or settled in between.
C31_LoadingWhileAnyPending ==
    (\E o \in Operations : AwaitingWithLoading(o)) => state.val._isLoading = TRUE

\* wrapAsyncOperation(store, operation) is called with options left out
AsyncStartDefault ==
    \E o \in Operations :
        /\ ops[o].pc = "idle"
        /\ LET argId == FreshId(HybridIds)
               newId == FreshId(HybridIds \cup {argId})
           IN  \E w \in WrapStart(TheWorld, DefaultOptions, argId, newId) :
                    /\ AsyncReturns("start", o, w)
                    /\ ops' = [ops EXCEPT ![o] = [@ EXCEPT !.pc = "pending",
                                                           !.options = DefaultOptions,
                                                           !.atInvoke = w.st]]

NextAsyncDefault == AsyncStartDefault \/ AsyncSettle \/ Tick

\* every call is made with the default options, and the promise of every
\* operation() that was invoked settles
SpecAsyncSettling ==
    InitAsync /\ [][NextAsyncDefault]_vars /\ WF_vars(AsyncSettle)

SomeAwaiting == \E o \in Operations : ops[o].pc = "pending"

\* this step is the start of a call
StartsCall == \E o \in Operations : ops[o].pc = "idle" /\ ops'[o].pc = "pending"

\* C32: with the default options, when every wrapped operation that was
\* started settles, then _isLoading becomes false once none is awaiting any
\* more, and from false it becomes true only in a step that starts another
\* wrapped operation.
C32_LoadingEventuallyCleared ==
    /\ SomeAwaiting ~> (~SomeAwaiting /\ state.val._isLoading = FALSE)
    /\ [][(state.val._isLoading = FALSE /\ state'.val._isLoading = TRUE) => StartsCall]_vars

\* two calls overlapped, the one that settled last failed, and _isLoading is
\* false after it
C32_Witness ==
    /\ \A o \in Operations : ops[o].pc = "settled"
    /\ ops[1].seq = 1 /\ ops[1].atSettle.val._isLoading = FALSE
    /\ ops[2].atInvoke.val._isLoading = TRUE
    /\ ops[2].seq = 2 /\ ops[2].outcome.kind = "rejected"
    /\ ops[2].atInvoke.id # ops[1].atInvoke.id
    /\ lastCall.pre.val._isLoading = FALSE
    /\ state.val._isLoading = FALSE

----------------------------------------------------------------------------
(* The tracker's present, the fields of restored states, maxSize = 0 *)

\* C33: while the tracker's listener is subscribed, after every completed
\* forward mutation, every undo() that returned true and every redo() that
\* returned true, the tracker's present is the very object getState()
\* returns.
C33_PresentIsCurrentState ==
    opLog # <<>> =>
        LET e == Last(opLog)
        IN  (e.sub /\ e.ret /\ e.op \in Forward \cup {"undo", "redo"}) =>
                /\ hist.present.id = state.id
                /\ hist.present = state

\* a redo() made after the tracker was subscribed again: the undo() before
\* it ran while the tracker was unsubscribed and left present behind
C33_Witness ==
    /\ Len(opLog) = 5
    /\ opLog[1].op \in Forward /\ opLog[1].sub
    /\ opLog[2].op = "unmount"
    /\ opLog[3].op = "undo" /\ opLog[3].ret /\ ~opLog[3].sub
    /\ opLog[3].post.present # opLog[3].st
    /\ opLog[4].op = "mount"
    /\ opLog[5].op = "redo" /\ opLog[5].ret /\ opLog[5].sub
    /\ hist.present = state

\* the values of an optional field of the state
NoteVals == {1}

\* a forward mutation that sets a field the initial state does not have:
\* this.setState({ note })
SetNote ==
    /\ Len(opLog) < MaxOps
    /\ \E v \in NoteVals : ForwardMutation("setNote", [note |-> v])

\* useHistoryState(store) on a new container whose states do not all have
\* the same fields
InitHistoryFields ==
    /\ state = InitialState
    /\ listeners = <<HistListener>>
    /\ status = [i \in Subs |-> "new"]
    /\ hist = [past |-> <<>>, present |-> InitialState, future |-> <<>>]
    /\ maxSize = DefaultMaxSize
    /\ opLog = <<>>
    /\ lastCall = NoCall
    /\ NoThrowers /\ PlainContainer /\ NoOperations /\ NoFunctionCall /\ NoHooks

NextHistoryFields == Increment \/ SetNote \/ Undo \/ Redo \/ HistMount \/ HistUnmount

SpecHistoryFields == InitHistoryFields /\ [][NextHistoryFields]_vars

\* C34: after an undo() that returned true the container state has exactly
\* the fields and values of the state it removed from past, and after a
\* redo() that returned true exactly those of the state it removed from
\* future, whichever fields the states of the history have.
C34_UndoRedoRestoreFields ==
    opLog # <<>> =>
        LET e == Last(opLog)
        IN  /\ (e.op = "undo" /\ e.ret) =>
                    /\ DOMAIN state.val = DOMAIN Last(e.pre.past).val
                    /\ state.val = Last(e.pre.past).val
            /\ (e.op = "redo" /\ e.ret) =>
                    /\ DOMAIN state.val = DOMAIN Last(e.pre.future).val
                    /\ state.val = Last(e.pre.future).val

\* the calls logged so far were forward mutations made with the tracker
\* subscribed, but for a last call that may be an undo()
ForwardThenMaybeUndo ==
    /\ \A i \in DOMAIN opLog : opLog[i].sub
    /\ \A i \in 1..(Len(opLog) - 1) : opLog[i].op \in Forward
    /\ Last(opLog).op \in Forward \cup {"undo"}

\* C35: with maxSize = 0 the tracker keeps no predecessor state: after any
\* sequence of forward mutations past is empty and canUndo() is false, and
\* an undo() made then returns false.
C35_MaxSizeZeroRetainsNothing ==
    (maxSize = 0 /\ opLog # <<>> /\ ForwardThenMaybeUndo) =>
        /\ (Last(opLog).op \in Forward) => (hist.past = <<>> /\ ~canUndo)
        /\ (Last(opLog).op = "undo") => ~Last(opLog).ret

----------------------------------------------------------------------------
(* setState called by a subscriber during a notification pass.  The        *)
(* container's setState assigns the new state and runs                     *)
(* listeners.forEach(listener => listener(state, previousState)), where    *)
(* state is the container's variable, read when each listener is called,   *)
(* and previousState is local to the call.  A setState made by a listener  *)
(* runs its own pass to the end before the listener returns.               *)

MaxCommits == 3     \* setState calls made from outside a notification pass

\* the objects a world refers to
WorldIds(w) ==
    LiveIds \cup {w.st.id} \cup HistIds(w.h)
        \cup {w.calls[i].new.id : i \in DOMAIN w.calls}
        \cup {w.calls[i].prev.id : i \in DOMAIN w.calls}

\* the partial objects a subscriber hands to setState from its callback
ReactionArgs == {[step |-> 2]}

RECURSIVE NotifyAllLive(_, _, _, _)
RECURSIVE SetStateLive(_, _)
RECURSIVE ReactingCallback(_, _)

\* store.setState(partial) for a new object literal; commits are numbered
\* in the order they are made within one outermost call
SetStateLive(w, partial) ==
    LET argId == FreshId(WorldIds(w))
        newId == FreshId(WorldIds(w) \cup {argId})
        previousState == w.st
        next == [id |-> newId, val |-> ShallowMerge(w.st.val, partial)]
    IN  NotifyAllLive([w EXCEPT !.st = next], 1, previousState, Len(w.effects) + 1)

\* a subscriber callback that may call setState: it returns at once, or
\* commits and returns after the pass of its own commit
ReactingCallback(w, l) ==
    {w} \cup
    IF Len(w.effects) >= MaxEffects THEN {}
    ELSE UNION {SetStateLive([w EXCEPT !.effects =
                                Append(@, [by |-> l, kind |-> "setState", target |-> l,
                                           at |-> Len(w.calls)])],
                             p) : p \in ReactionArgs}

\* listeners.forEach from the i-th listener on, for commit number commit;
\* each listener is called with the container's state at that moment
NotifyAllLive(w, i, previousState, commit) ==
    IF i > Len(w.order) THEN {w}
    ELSE LET l == w.order[i]
             w1 == [w EXCEPT !.calls = Append(@, [who |-> l, new |-> w.st,
                                                  prev |-> previousState,
                                                  commit |-> commit])]
         IN  UNION {NotifyAllLive(w2, i + 1, previousState, commit) :
                        w2 \in (IF l = HistListener
                                   THEN {HistoryListener(w1, w.st, previousState)}
                                   ELSE ReactingCallback(w1, l))}

\* a setState call made from outside a notification pass, on a container
\* whose subscribers may commit in turn
OutermostCommit(op, partial) ==
    \E w \in SetStateLive(TheWorld, partial) :
        /\ state' = w.st
        /\ listeners' = w.order
        /\ status' = w.status
        /\ hist' = w.h
        /\ opLog' = Append(opLog, LogEntry(op, TRUE, w))
        /\ lastCall' = Call(op, 0, [id |-> 0, val |-> partial], w)
        /\ UNCHANGED <<maxSize, throwing, kind, asyncVars, pureVars, hookVars>>

\* increment()
IncrementLive ==
    /\ Len(opLog) < MaxCommits
    /\ OutermostCommit("increment", [count |-> state.val.count + state.val.step])

\* setStep(step)
SetStepLive ==
    /\ Len(opLog) < MaxCommits
    /\ \E v \in StepVals : OutermostCommit("setStep", [step |-> v])

\* the orders in which two callbacks and the tracker's listener subscribed
SubscriptionOrders ==
    {<<1, 2, HistListener>>, <<1, HistListener, 2>>, <<HistListener, 1, 2>>}

InitLive ==
    /\ state = InitialState
    /\ listeners \in SubscriptionOrders
    /\ status = [i \in Subs |-> IF i \in {1, 2} THEN "on" ELSE "new"]
    /\ hist = [past |-> <<>>, present |-> InitialState, future |-> <<>>]
    /\ maxSize = DefaultMaxSize
    /\ opLog = <<>>
    /\ lastCall = NoCall
    /\ NoThrowers /\ PlainContainer /\ NoOperations /\ NoFunctionCall /\ NoHooks

NextLive == IncrementLive \/ SetStepLive

SpecLive == InitLive /\ [][NextLive]_vars

\* the notifications subscriber l received during the last outermost call
DeliveredTo(l) == SelectSeq(lastCall.calls, LAMBDA c : c.who = l)

\* C36: when a subscriber calls setState during a notification pass, each
\* subscriber receives the commits in the order they were made, and when
\* the outermost setState returns the newState last delivered to every
\* subscriber, and the tracker's present, is getState().
C36_NestedCommitsInOrder ==
    lastCall.effects # <<>> =>
        \A l \in Range(listeners) :
            LET d == DeliveredTo(l)
            IN  /\ \A i, j \in DOMAIN d : i < j => d[i].commit < d[j].commit
                /\ d # <<>> /\ Last(d).new = state
                /\ (l = HistListener) => hist.present = state

----------------------------------------------------------------------------
(* The state that was current before batchUpdate and mergeState *)

\* the last call was batchUpdate(fn) or mergeState(fn, 'replace')
RanOnCopy ==
    \/ lastCall.op = "batchUpdate"
    \/ /\ lastCall.op = "mergeState"
       /\ lastCall.arg.strategy = "replace"
       /\ "fn" \in DOMAIN lastCall.arg.partial

\* C37: batchUpdate(fn) and mergeState(fn, 'replace') do not modify the
\* state that was current before the call: the previousState delivered to
\* every subscriber equals, nested fields included, what getState() returned
\* before the call.
C37_UpdaterKeepsPreviousState ==
    RanOnCopy =>
        \A i \in DOMAIN lastCall.calls : lastCall.calls[i].prev = lastCall.pre

----------------------------------------------------------------------------
(* paginate(data, options) *)

MaxItems == 5   \* longest data array
MaxPage == 3    \* largest options.page
MaxLimit == 3   \* largest options.limit

\* an option left out (undefined), or a number
Omitted == [nil |-> TRUE]

Given(n) == [nil |-> FALSE, n |-> n]

\* lodash isNil
isNil(x) == x.nil

\* Array.prototype.slice(start, end) for 0 <= start <= end
Slice(s, start, end) ==
    SubSeq(s, start + 1, IF end < Len(s) THEN end ELSE Len(s))

paginate(data, options) ==
    LET limit == IF isNil(options.limit) \/ options.limit.n < 1 THEN 1 ELSE options.limit.n
        page == IF isNil(options.page) \/ options.page.n < 1 THEN 1 ELSE options.page.n
        start == IF page > 1 THEN (page - 1) * limit + 1 ELSE 0
        items == Slice(data, start, start + limit)
        totalPages == IF Len(data) % limit = 0
                        THEN Len(data) \div limit
                        ELSE (Len(data) \div limit) + 1
        remainder == IF Len(data) % limit # 0 THEN Len(data) % limit ELSE limit
        itemCount == IF page < totalPages THEN limit ELSE remainder
    IN  [items |-> items,
         meta |-> [totalItems |-> Len(data), itemCount |-> itemCount, perPage |-> limit,
                   totalPages |-> totalPages, currentPage |-> page]]

\* the values an option can have
OptionValues(max) == {Omitted} \cup {Given(n) : n \in 0..max}

\* paginate(data, options) is called
PaginateCall ==
    /\ output = NotCalled
    /\ output' = paginate(input.data, input.options)
    /\ UNCHANGED <<state, listeners, status, hist, maxSize, opLog, lastCall,
                   throwing, kind, asyncVars, input, hookVars>>

\* data holds the records 1..n
InitPaginate ==
    /\ \E n \in 0..MaxItems, page \in OptionValues(MaxPage), limit \in OptionValues(MaxLimit) :
            input = [data |-> [i \in 1..n |-> i],
                     options |-> [page |-> page, limit |-> limit]]
    /\ output = NotCalled
    /\ state = InitialState
    /\ listeners = <<>>
    /\ status = [i \in Subs |-> "new"]
    /\ hist = [past |-> <<>>, present |-> InitialState, future |-> <<>>]
    /\ maxSize = DefaultMaxSize
    /\ opLog = <<>>
    /\ lastCall = NoCall
    /\ NoThrowers /\ PlainContainer /\ NoOperations /\ NoHooks

NextPaginate == PaginateCall

SpecPaginate == InitPaginate /\ [][NextPaginate]_vars

\* C38: for page >= 1 and limit >= 1, paginate returns as items the elements
\* of data at the 0-based positions (page-1)*limit .. page*limit-1 that
\* exist, so that consecutive pages partition data, and meta.itemCount is
\* the number of items returned.
C38_PaginateWindow ==
    (/\ output # NotCalled
     /\ ~isNil(input.options.page) /\ ~isNil(input.options.limit)
     /\ input.options.page.n >= 1 /\ input.options.limit.n >= 1) =>
        LET page == input.options.page.n
            limit == input.options.limit.n
            data == input.data
        IN  /\ output.items = SubSeq(data, (page - 1) * limit + 1, Min(page * limit, Len(data)))
            /\ output.meta.itemCount = Len(output.items)

====
